---- MODULE Spec2Model ----
(***************************************************************************)
(* Model of crypto/block_cipher/basic_block_cipher.go: the streaming       *)
(* AES-256-CBC codec (EncryptStream / DecryptStream) with the "Salted__"   *)
(* container header, PBKDF2 key derivation and PKCS7 padding.              *)
(*                                                                         *)
(* The block cipher and the key-stretching function are library code; they *)
(* are modelled by small keyed byte permutations that keep what the codec  *)
(* relies on: a 16-byte block, invertibility under the same key, and a     *)
(* different result under a different key.  Everything else (chunking,     *)
(* chaining, padding, deferred writes, error paths) follows the source.    *)
(***************************************************************************)
EXTENDS Integers, Sequences, FiniteSets, TLC

(***************************************************************************)
(* Program constants                                                       *)
(***************************************************************************)
BlockSize == 16

headerSize == 16

saltSize == 8

aes256KeySize == 32

ivOffset == 32

magicHeader == <<83, 97, 108, 116, 101, 100, 95, 95>>

(***************************************************************************)
(* Bounds of the model                                                     *)
(***************************************************************************)
\* the chunk buffer holds this many cipher blocks (1 MiB / 16 in the source)
BlocksPerBuffer == 2

\* plaintexts are at most this many chunk buffers plus one byte long
MaxChunks == 2

bufferSize == BlocksPerBuffer * BlockSize

MaxLen == MaxChunks * bufferSize + 1

Byte == 0 .. 255

(***************************************************************************)
(* Byte helpers                                                            *)
(***************************************************************************)
RECURSIVE XorBits(_, _, _)
XorBits(a, b, n) ==
    IF n = 0 THEN 0
    ELSE ((a + b) % 2) + 2 * XorBits(a \div 2, b \div 2, n - 1)

XorTable == [a \in Byte |-> [b \in Byte |-> XorBits(a, b, 8)]]

XorBlock(x, y) == [j \in 1 .. BlockSize |-> XorTable[x[j]][y[j]]]

RECURSIVE SumSeq(_)
SumSeq(s) == IF s = <<>> THEN 0 ELSE Head(s) + SumSeq(Tail(s))

Repeat(b, n) == [j \in 1 .. n |-> b]

Take(s, n) == SubSeq(s, 1, n)

Drop(s, n) == SubSeq(s, n + 1, Len(s))

Min(a, b) == IF a < b THEN a ELSE b

IsPrefix(s, t) == Len(s) <= Len(t) /\ Take(t, Len(s)) = s

(***************************************************************************)
(* Key derivation                                                          *)
(***************************************************************************)
\* pbkdf2.Key(password, salt, iterations, n, sha256.New): n bytes that
\* depend on every byte of the password and of the salt
pbkdf2Key(password, salt, n) ==
    [i \in 1 .. n |->
        (SumSeq(password) * 31 + Len(password) * 5 + SumSeq(salt) * 7 + i * 13) % 256]

\* mutant: the IV is cut from the bytes of the key
deriveKeyAndIV_Overlap(password, salt) ==
    LET keyIv == pbkdf2Key(password, salt, aes256KeySize + BlockSize)
    IN  [key |-> SubSeq(keyIv, 1, aes256KeySize),
         iv  |-> SubSeq(keyIv, ivOffset - BlockSize + 1, ivOffset)]

deriveKeyAndIV(password, salt) ==
    LET keyIv == pbkdf2Key(password, salt, aes256KeySize + BlockSize)
    IN  [key |-> SubSeq(keyIv, 1, aes256KeySize),
         iv  |-> SubSeq(keyIv, ivOffset + 1, ivOffset + BlockSize)]

(***************************************************************************)
(* Block cipher session (CBC over a keyed block permutation)               *)
(***************************************************************************)
\* the inverse modulo 256 of every odd byte
InverseTable ==
    [a \in {x \in Byte : x % 2 = 1} |-> CHOOSE y \in Byte : (a * y) % 256 = 1]

\* the key's multiplier for byte j of a block
KeyMul(key, j) == (2 * key[j] + 1) % 256

\* block.Encrypt: a permutation of the 16-byte blocks chosen by the 32-byte key
EncryptBlock(key, b) ==
    [j \in 1 .. BlockSize |-> (KeyMul(key, j) * b[j] + key[j + BlockSize]) % 256]

\* block.Decrypt: the inverse of EncryptBlock under the same key
DecryptBlock(key, c) ==
    [j \in 1 .. BlockSize |->
        (InverseTable[KeyMul(key, j)] * (c[j] + 256 - key[j + BlockSize])) % 256]

\* cipher.NewCBCEncrypter(block, iv).CryptBlocks(dst, src): the result and
\* the chaining value the session holds afterwards
RECURSIVE CBCEncryptBlocks(_, _, _)
CBCEncryptBlocks(key, iv, src) ==
    IF Len(src) = 0 THEN [out |-> <<>>, iv |-> iv]
    ELSE LET c    == EncryptBlock(key, XorBlock(Take(src, BlockSize), iv))
             rest == CBCEncryptBlocks(key, c, Drop(src, BlockSize))
         IN  [out |-> c \o rest.out, iv |-> rest.iv]

RECURSIVE CBCDecryptBlocks(_, _, _)
CBCDecryptBlocks(key, iv, src) ==
    IF Len(src) = 0 THEN [out |-> <<>>, iv |-> iv]
    ELSE LET c    == Take(src, BlockSize)
             p    == XorBlock(DecryptBlock(key, c), iv)
             rest == CBCDecryptBlocks(key, c, Drop(src, BlockSize))
         IN  [out |-> p \o rest.out, iv |-> rest.iv]

(***************************************************************************)
(* PKCS7                                                                   *)
(***************************************************************************)
\* mutant: block-aligned data gets no padding
applyPKCS7Padding_NoFullBlock(data) ==
    LET padding == (BlockSize - (Len(data) % BlockSize)) % BlockSize
    IN  data \o Repeat(padding, padding)

applyPKCS7Padding(data) ==
    LET padding == BlockSize - (Len(data) % BlockSize)
    IN  data \o Repeat(padding, padding)

\* mutant: a padding length above the block size is cut down to one block
removePKCS7Padding_ClampToBlock(data, bytesRead) ==
    IF bytesRead = 0 THEN data
    ELSE LET paddingLength == Min(data[bytesRead], BlockSize)
         IN  IF paddingLength > bytesRead
             THEN data
             ELSE Take(data, bytesRead - paddingLength)

\* mutant: the padding length is not compared with the block size
removePKCS7Padding_NoBlockLimit(data, bytesRead) ==
    IF bytesRead = 0 THEN data
    ELSE LET paddingLength == data[bytesRead]
         IN  IF paddingLength > bytesRead
             THEN data
             ELSE Take(data, bytesRead - paddingLength)

\* mutant: the length test is off by one, so a chunk that is all padding
\* is taken for malformed and kept
removePKCS7Padding_OffByOne(data, bytesRead) ==
    IF bytesRead = 0 THEN data
    ELSE LET paddingLength == data[bytesRead]
         IN  IF paddingLength >= bytesRead \/ paddingLength > BlockSize
             THEN data
             ELSE Take(data, bytesRead - paddingLength)

\* mutant: the padding length is not compared with the length of the chunk
removePKCS7Padding_NoLengthCheck(data, bytesRead) ==
    IF bytesRead = 0 THEN data
    ELSE LET paddingLength == data[bytesRead]
         IN  IF paddingLength > BlockSize
             THEN data
             ELSE Take(data, bytesRead - paddingLength)

removePKCS7Padding(data, bytesRead) ==
    IF bytesRead = 0 THEN data
    ELSE LET paddingLength == data[bytesRead]
         IN  IF paddingLength > bytesRead \/ paddingLength > BlockSize
             THEN data
             ELSE Take(data, bytesRead - paddingLength)

(***************************************************************************)
(* Sources and sinks                                                       *)
(***************************************************************************)
nil == [msg |-> "nil", cause |-> "nil"]

Errorf(msg, cause) == [msg |-> msg, cause |-> cause]

isEOFErr(readErr) == readErr = "EOF" \/ readErr = "unexpected EOF"

\* io.ReadFull(r, buf) with len(buf) = n on a source holding data, pos bytes
\* of which are consumed.  fault = -1: the source does not fail; fault = j:
\* the source delivers j more bytes and then fails with a read error.
ReadFull(data, pos, n, fault) ==
    LET avail == Len(data) - pos
        k     == IF fault >= 0 THEN Min(fault, Min(avail, n)) ELSE Min(avail, n)
    IN  [buf |-> SubSeq(data, pos + 1, pos + k),
         n   |-> k,
         err |-> IF k >= n THEN "nil"
                 ELSE IF fault >= 0 THEN "read error"
                 ELSE IF k = 0 THEN "EOF"
                 ELSE "unexpected EOF"]

\* the numbers of bytes a failing source may still deliver in one read
FaultDeliveries == {0, 1, BlockSize}

ReadFaults(data, pos, n) ==
    {-1} \cup {j \in FaultDeliveries : j < n /\ j <= Len(data) - pos}

\* w.Write(p): ok = FALSE is a failing sink, which may have taken a byte
Write(sink, p, ok, partial) ==
    IF ok THEN sink \o p ELSE sink \o Take(p, Min(partial, Len(p)))

LogRead(rd) == [op |-> "read", n |-> rd.n, err |-> rd.err]

LogWrite(p, ok) == [op |-> "write", n |-> Len(p), err |-> IF ok THEN "nil" ELSE "write error"]

(***************************************************************************)
(* Inputs                                                                  *)
(***************************************************************************)
TailBytes == {1, 16, 200}

\* a plaintext of length L whose last byte is t
PlainOf(L, t) == [i \in 1 .. L |-> IF i = L THEN t ELSE (i * 37 + t) % 256]

\* lengths at and next to every block and chunk-buffer boundary, and mid-block
Lengths == {L \in 0 .. MaxLen : L % BlockSize \in {0, 1, 8, BlockSize - 1}}

Plaintexts == {PlainOf(L, t) : L \in Lengths, t \in TailBytes}

Passwords == {<<>>, <<115, 51, 99>>}

Salts == {<<1, 2, 3, 4, 5, 6, 7, 8>>, <<0, 0, 0, 0, 0, 0, 0, 9>>}

(***************************************************************************)
(* State                                                                   *)
(***************************************************************************)
VARIABLES
    plain,           \* EncryptStream: the bytes of the source r
    password,        \* EncryptStream: password
    e_pc,            \* EncryptStream: position in the function
    e_pos,           \* bytes of r consumed so far
    w,               \* the bytes the sink w holds
    salt,            \* writeEncryptedHeader: salt
    cbc,             \* setupEncryption: key and chaining value of the session
    readBuffer,      \* readBuffer[:bytesRead]
    bytesRead,
    readErr,
    hasWrittenData,
    e_err,           \* the error EncryptStream returned
    e_log,           \* the reads and writes EncryptStream made, in order
    inputFile,       \* DecryptStream: the bytes of the source inputFile
    d_password,      \* DecryptStream: password
    d_pc,            \* DecryptStream: position in the function
    d_pos,           \* bytes of inputFile consumed so far
    outputFile,      \* the bytes the sink outputFile holds
    mode,            \* key and chaining value of the CBC decrypter
    d_bytesRead,
    d_readErr,
    previousDecryptedData,
    currentDecrypted,
    d_err,           \* the error DecryptStream returned
    d_log            \* the reads and writes DecryptStream made, in order

evars == <<plain, password, e_pc, e_pos, w, salt, cbc, readBuffer, bytesRead,
           readErr, hasWrittenData, e_err, e_log>>

dvars == <<inputFile, d_password, d_pc, d_pos, outputFile, mode, d_bytesRead,
           d_readErr, previousDecryptedData, currentDecrypted, d_err, d_log>>

VARIABLES
    fsys,            \* NewManagerFromFS: the files of the file system
    pattern,         \* NewManagerFromFS: pattern
    m_pc,            \* rumtpl: "new", then "ready" or "failed", "rendered" after a Render
    m_t,             \* Manager.t: the templates by name
    m_err,           \* the error NewManagerFromFS returned
    r_name,          \* Render: name
    r_data,          \* Render: data
    r_out,           \* the bytes Render returned
    r_err,           \* the error Render returned
    g_files,         \* generator: the files under config.Root
    g_dirs,          \* generator: config.Dirs
    g_pc,            \* Generate: position in the function
    g_i,             \* Generate: index of the next entry of config.Dirs
    seenNames,       \* Generate: constName -> relPath
    allTemplates,    \* Generate: the templates discovered so far
    g_out,           \* the file templates_gen.go under config.Root
    g_err            \* the error Generate returned

mvars == <<fsys, pattern, m_pc, m_t, m_err, r_name, r_data, r_out, r_err>>

gvars == <<g_files, g_dirs, g_pc, g_i, seenNames, allTemplates, g_out, g_err>>

VARIABLES
    s_pc,            \* removePKCS7Padding: "call", then "returned"
    s_data,          \* removePKCS7Padding: data
    s_bytesRead,     \* removePKCS7Padding: bytesRead
    s_out,           \* the slice removePKCS7Padding returned
    p_pc,            \* phc: "generate", "check", "password", "done"
    p_secret,        \* GenerateFromBytes: secret
    p_encodedHash,   \* the string GenerateFromBytes returned
    p_err,           \* the error GenerateFromBytes returned
    c_encodedHash,   \* CheckSecret, CheckPassword: encodedHash
    c_secret,        \* CheckSecret: secret; CheckPassword: the bytes of password
    cs_match,        \* what CryptoPHC.CheckSecret returned
    cs_err,
    cp_match,        \* what CryptoPHC.CheckPassword returned
    cp_err

svars == <<s_pc, s_data, s_bytesRead, s_out>>

pvars == <<p_pc, p_secret, p_encodedHash, p_err, c_encodedHash, c_secret,
           cs_match, cs_err, cp_match, cp_err>>

vars == <<evars, dvars, mvars, gvars, svars, pvars>>

NoSession == [key |-> <<>>, iv |-> <<>>]

\* no Manager, no file
NoManager == <<>>

NoFile == [kind |-> "absent"]

\* the template manager is not in use
ManagerIdle ==
    /\ fsys = {}
    /\ pattern = <<>>
    /\ m_pc = "idle"
    /\ m_t = NoManager
    /\ m_err = nil
    /\ r_name = <<>>
    /\ r_data = <<>>
    /\ r_out = <<>>
    /\ r_err = nil

\* removePKCS7Padding is not called on its own
StripIdle ==
    /\ s_pc = "idle"
    /\ s_data = <<>>
    /\ s_bytesRead = 0
    /\ s_out = <<>>

\* the password hasher is not in use
PhcIdle ==
    /\ p_pc = "idle"
    /\ p_secret = <<>>
    /\ p_encodedHash = <<>>
    /\ p_err = nil
    /\ c_encodedHash = <<>>
    /\ c_secret = <<>>
    /\ cs_match = FALSE
    /\ cs_err = nil
    /\ cp_match = FALSE
    /\ cp_err = nil

\* the generator is not in use
GeneratorIdle ==
    /\ g_files = {}
    /\ g_dirs = <<>>
    /\ g_pc = "idle"
    /\ g_i = 1
    /\ seenNames = <<>>
    /\ allTemplates = <<>>
    /\ g_out = NoFile
    /\ g_err = nil

Init ==
    /\ StripIdle
    /\ PhcIdle
    /\ ManagerIdle
    /\ GeneratorIdle
    /\ plain \in Plaintexts
    /\ password \in Passwords
    /\ e_pc = "salt"
    /\ e_pos = 0
    /\ w = <<>>
    /\ salt = <<>>
    /\ cbc = NoSession
    /\ readBuffer = <<>>
    /\ bytesRead = 0
    /\ readErr = "nil"
    /\ hasWrittenData = FALSE
    /\ e_err = nil
    /\ e_log = <<>>
    /\ inputFile = <<>>
    /\ d_password = <<>>
    /\ d_pc = "idle"
    /\ d_pos = 0
    /\ outputFile = <<>>
    /\ mode = NoSession
    /\ d_bytesRead = 0
    /\ d_readErr = "nil"
    /\ previousDecryptedData = <<>>
    /\ currentDecrypted = <<>>
    /\ d_err = nil
    /\ d_log = <<>>

(***************************************************************************)
(* EncryptStream                                                           *)
(***************************************************************************)
EReturn(err) == e_pc' = "done" /\ e_err' = err

\* writeEncryptedHeader: io.ReadFull(rand.Reader, salt)
E_GenSalt ==
    /\ e_pc = "salt"
    /\ \E s \in Salts \cup {<<>>} :
          IF s = <<>>
          THEN /\ EReturn(Errorf("error generating salt", "rand"))
               /\ UNCHANGED salt
          ELSE /\ salt' = s
               /\ e_pc' = "magic"
               /\ UNCHANGED e_err
    /\ UNCHANGED <<plain, password, e_pos, w, cbc, readBuffer, bytesRead,
                   readErr, hasWrittenData, e_log>>
    /\ UNCHANGED <<dvars, mvars, gvars, svars, pvars>>

\* mutant: the error of the first write is dropped
E_WriteMagic_IgnoreError ==
    /\ e_pc = "magic"
    /\ \E ok \in BOOLEAN, partial \in {0, 1} :
          /\ ok => partial = 0
          /\ w' = Write(w, magicHeader, ok, partial)
          /\ e_log' = Append(e_log, LogWrite(magicHeader, ok))
          /\ e_pc' = "salt_out"
          /\ UNCHANGED e_err
    /\ UNCHANGED <<plain, password, e_pos, salt, cbc, readBuffer, bytesRead,
                   readErr, hasWrittenData>>
    /\ UNCHANGED <<dvars, mvars, gvars, svars, pvars>>

\* writeEncryptedHeader: w.Write([]byte(magicHeader))
E_WriteMagic ==
    /\ e_pc = "magic"
    /\ \E ok \in BOOLEAN, partial \in {0, 1} :
          /\ ok => partial = 0
          /\ w' = Write(w, magicHeader, ok, partial)
          /\ e_log' = Append(e_log, LogWrite(magicHeader, ok))
          /\ IF ok
             THEN e_pc' = "salt_out" /\ UNCHANGED e_err
             ELSE EReturn(Errorf("error writing header to file", "write error"))
    /\ UNCHANGED <<plain, password, e_pos, salt, cbc, readBuffer, bytesRead,
                   readErr, hasWrittenData>>
    /\ UNCHANGED <<dvars, mvars, gvars, svars, pvars>>

\* aes.NewCipher(key) accepts AES-128, AES-192 and AES-256 keys only
NewCipherOk(key) == Len(key) \in {16, 24, 32}

\* mutant: the key is derived from a salt buffer that was never filled
setupEncryption_BlankSalt(pw, s) == deriveKeyAndIV(pw, Repeat(0, saltSize))

setupEncryption(pw, s) == deriveKeyAndIV(pw, s)

\* writeEncryptedHeader: w.Write(salt), then setupEncryption
E_WriteSalt ==
    /\ e_pc = "salt_out"
    /\ \E ok \in BOOLEAN, partial \in {0, 1} :
          /\ ok => partial = 0
          /\ w' = Write(w, salt, ok, partial)
          /\ e_log' = Append(e_log, LogWrite(salt, ok))
          /\ IF ok
             THEN /\ cbc' = setupEncryption(password, salt)
                  /\ IF NewCipherOk(setupEncryption(password, salt).key)
                     THEN e_pc' = "read" /\ UNCHANGED e_err
                     ELSE EReturn(Errorf("error creating AES cipher", "invalid key size"))
             ELSE /\ EReturn(Errorf("error writing salt to file", "write error"))
                  /\ UNCHANGED cbc
    /\ UNCHANGED <<plain, password, e_pos, salt, readBuffer, bytesRead,
                   readErr, hasWrittenData>>
    /\ UNCHANGED <<dvars, mvars, gvars, svars, pvars>>

\* EncryptStream: bytesRead, readErr := io.ReadFull(r, readBuffer)
E_Read ==
    /\ e_pc = "read"
    /\ \E fault \in ReadFaults(plain, e_pos, bufferSize) :
          LET rd == ReadFull(plain, e_pos, bufferSize, fault)
          IN  /\ readBuffer' = rd.buf
              /\ bytesRead' = rd.n
              /\ readErr' = rd.err
              /\ e_pos' = e_pos + rd.n
              /\ e_log' = Append(e_log, LogRead(rd))
    /\ e_pc' = "write"
    /\ UNCHANGED <<plain, password, w, salt, cbc, hasWrittenData, e_err>>
    /\ UNCHANGED <<dvars, mvars, gvars, svars, pvars>>

\* mutant: only an empty read ends the loop
isLastBlockOf_OnlyEmpty(n, err) == n = 0

isLastBlockOf(n, err) == n < bufferSize \/ isEOFErr(err)

\* mutant: no padding block after full buffers when the last read is empty
processFinalBlock_NoPadAfterFull(data, n, written) ==
    IF n = 0
    THEN IF ~written
         THEN applyPKCS7Padding(Take(data, 0))
         ELSE <<>>
    ELSE applyPKCS7Padding(Take(data, n))

\* processFinalBlock: the bytes handed to writeEncryptedBlock
processFinalBlock(data, n, written) ==
    IF n = 0
    THEN IF ~written
         THEN applyPKCS7Padding(Take(data, 0))
         ELSE Repeat(BlockSize, BlockSize)
    ELSE applyPKCS7Padding(Take(data, n))

\* mutant: every call starts from the chaining value the session had before
writeEncryptedBlock_NoChaining(session, data) ==
    [out |-> CBCEncryptBlocks(session.key, session.iv, data).out, iv |-> session.iv]

\* writeEncryptedBlock: cbc.CryptBlocks(encBlock, data); the bytes handed to
\* w.Write and the chaining value the session keeps for the next call
writeEncryptedBlock(session, data) ==
    CBCEncryptBlocks(session.key, session.iv, data)

\* mutant: every chunk is padded, not only the last one
EncryptChunk_PadEvery ==
    processFinalBlock(readBuffer, bytesRead, hasWrittenData)

\* the chunk of the current iteration, as handed to writeEncryptedBlock
EncryptChunk ==
    IF isLastBlockOf(bytesRead, readErr)
    THEN processFinalBlock(readBuffer, bytesRead, hasWrittenData)
    ELSE Take(readBuffer, bytesRead)

\* EncryptStream: the rest of one loop iteration after the read
E_Write ==
    /\ e_pc = "write"
    /\ LET data == EncryptChunk
       IN  IF Len(data) % BlockSize # 0
           THEN \* cbc.CryptBlocks panics: input not full blocks
                /\ e_pc' = "panic"
                /\ UNCHANGED <<w, cbc, hasWrittenData, e_err, e_log>>
           ELSE LET enc == writeEncryptedBlock(cbc, data)
                IN  \E ok \in BOOLEAN, partial \in {0, 1} :
                       /\ ok => partial = 0
                       /\ cbc' = [cbc EXCEPT !.iv = enc.iv]
                       /\ w' = Write(w, enc.out, ok, partial)
                       /\ e_log' = Append(e_log, LogWrite(enc.out, ok))
                       /\ IF ~ok
                          THEN /\ EReturn(Errorf("error writing encrypted block to file",
                                                 "write error"))
                               /\ UNCHANGED hasWrittenData
                          ELSE IF isLastBlockOf(bytesRead, readErr)
                          THEN /\ EReturn(nil)
                               /\ UNCHANGED hasWrittenData
                          ELSE /\ hasWrittenData' = TRUE
                               /\ IF readErr # "nil" /\ ~isEOFErr(readErr)
                                  THEN EReturn(Errorf("failed to read input data", readErr))
                                  ELSE e_pc' = "read" /\ UNCHANGED e_err
    /\ UNCHANGED <<plain, password, e_pos, salt, readBuffer, bytesRead, readErr>>
    /\ UNCHANGED <<dvars, mvars, gvars, svars, pvars>>

(***************************************************************************)
(* DecryptStream                                                           *)
(***************************************************************************)
\* no read of the source and no write to the sink failed
CleanLog(log) == \A i \in 1 .. Len(log) : log[i].err \in {"nil", "EOF", "unexpected EOF"}

EncryptedOK == e_pc = "done" /\ e_err = nil /\ CleanLog(e_log)

\* what DecryptStream is run on: the container EncryptStream produced, the
\* container cut short inside or right after its header, the container with
\* one byte of the magic tag changed, and the container without its last
\* byte or its last block
DecryptInputs(c) ==
    {c}
    \cup {Take(c, k) : k \in 0 .. headerSize}
    \cup {[c EXCEPT ![i] = (c[i] + 1) % 256] : i \in {1, saltSize}}
    \cup {Take(c, Len(c) - k) : k \in {1, BlockSize}}

D_Start ==
    /\ d_pc = "idle"
    /\ EncryptedOK
    /\ \E in \in DecryptInputs(w), pw \in Passwords :
          /\ in # w => pw = password
          /\ inputFile' = in
          /\ d_password' = pw
    /\ d_pc' = "header"
    /\ UNCHANGED <<d_pos, outputFile, mode, d_bytesRead, d_readErr,
                   previousDecryptedData, currentDecrypted, d_err, d_log>>
    /\ UNCHANGED <<evars, mvars, gvars, svars, pvars>>

DReturn(err) == d_pc' = "done" /\ d_err' = err

\* mutant: a header that cannot be read in full is reported as a bad format
readAndValidateHeader_FormatOnShort(rd) ==
    IF rd.err # "nil" \/ Take(rd.buf, saltSize) # magicHeader
    THEN [err |-> Errorf("invalid file format", "none"), salt |-> <<>>]
    ELSE [err |-> nil, salt |-> SubSeq(rd.buf, saltSize + 1, headerSize)]

\* mutant: the comparison with the magic tag stops one byte short
readAndValidateHeader_ShortCompare(rd) ==
    IF rd.err # "nil"
    THEN [err |-> Errorf("failed to read header", rd.err), salt |-> <<>>]
    ELSE IF Take(rd.buf, saltSize - 1) # Take(magicHeader, saltSize - 1)
    THEN [err |-> Errorf("invalid file format", "none"), salt |-> <<>>]
    ELSE [err |-> nil, salt |-> SubSeq(rd.buf, saltSize + 1, headerSize)]

\* readAndValidateHeader: the error, or nil and the salt
readAndValidateHeader(rd) ==
    IF rd.err # "nil"
    THEN [err |-> Errorf("failed to read header", rd.err), salt |-> <<>>]
    ELSE IF Take(rd.buf, saltSize) # magicHeader
    THEN [err |-> Errorf("invalid file format", "none"), salt |-> <<>>]
    ELSE [err |-> nil, salt |-> SubSeq(rd.buf, saltSize + 1, headerSize)]

\* DecryptStream up to the loop: header, key derivation, cipher setup
D_ReadHeader ==
    /\ d_pc = "header"
    /\ \E fault \in ReadFaults(inputFile, d_pos, headerSize) :
          LET rd  == ReadFull(inputFile, d_pos, headerSize, fault)
              hdr == readAndValidateHeader(rd)
              kiv == deriveKeyAndIV(d_password, hdr.salt)
          IN  /\ d_pos' = d_pos + rd.n
              /\ d_log' = Append(d_log, LogRead(rd))
              /\ IF hdr.err # nil
                 THEN DReturn(hdr.err) /\ UNCHANGED mode
                 ELSE IF ~NewCipherOk(kiv.key)
                 THEN /\ DReturn(Errorf("failed to create cipher", "invalid key size"))
                      /\ UNCHANGED mode
                 ELSE /\ mode' = kiv
                      /\ d_pc' = "read"
                      /\ UNCHANGED d_err
    /\ UNCHANGED <<inputFile, d_password, outputFile, d_bytesRead, d_readErr,
                   previousDecryptedData, currentDecrypted>>
    /\ UNCHANGED <<evars, mvars, gvars, svars, pvars>>

\* mutant: one package-level cipher; a running EncryptStream's chaining value
\* is what DecryptStream decrypts against
D_Read_SharedCipher ==
    /\ d_pc = "read"
    /\ \E fault \in ReadFaults(inputFile, d_pos, bufferSize) :
          LET rd == ReadFull(inputFile, d_pos, bufferSize, fault)
          IN  /\ d_bytesRead' = rd.n
              /\ d_readErr' = rd.err
              /\ d_pos' = d_pos + rd.n
              /\ d_log' = Append(d_log, LogRead(rd))
              /\ IF rd.n = 0
                 THEN d_pc' = "eof" /\ UNCHANGED <<mode, currentDecrypted>>
                 ELSE IF rd.n % BlockSize # 0
                 THEN \* mode.CryptBlocks panics: input not full blocks
                      d_pc' = "panic" /\ UNCHANGED <<mode, currentDecrypted>>
                 ELSE LET dec == CBCDecryptBlocks(mode.key, IF cbc # NoSession THEN cbc.iv ELSE mode.iv, rd.buf)
                      IN  /\ currentDecrypted' = dec.out
                          /\ mode' = [mode EXCEPT !.iv = dec.iv]
                          /\ d_pc' = "process"
    /\ UNCHANGED <<inputFile, d_password, outputFile, previousDecryptedData, d_err>>
    /\ UNCHANGED <<evars, mvars, gvars, svars, pvars>>

\* DecryptStream: bytesRead, readErr := io.ReadFull(inputFile, encryptedBuffer)
\* and, when bytes were read, mode.CryptBlocks of processDecryptionBlock
D_Read ==
    /\ d_pc = "read"
    /\ \E fault \in ReadFaults(inputFile, d_pos, bufferSize) :
          LET rd == ReadFull(inputFile, d_pos, bufferSize, fault)
          IN  /\ d_bytesRead' = rd.n
              /\ d_readErr' = rd.err
              /\ d_pos' = d_pos + rd.n
              /\ d_log' = Append(d_log, LogRead(rd))
              /\ IF rd.n = 0
                 THEN d_pc' = "eof" /\ UNCHANGED <<mode, currentDecrypted>>
                 ELSE IF rd.n % BlockSize # 0
                 THEN \* mode.CryptBlocks panics: input not full blocks
                      d_pc' = "panic" /\ UNCHANGED <<mode, currentDecrypted>>
                 ELSE LET dec == CBCDecryptBlocks(mode.key, mode.iv, rd.buf)
                      IN  /\ currentDecrypted' = dec.out
                          /\ mode' = [mode EXCEPT !.iv = dec.iv]
                          /\ d_pc' = "process"
    /\ UNCHANGED <<inputFile, d_password, outputFile, previousDecryptedData, d_err>>
    /\ UNCHANGED <<evars, mvars, gvars, svars, pvars>>

\* mutant: the pending chunk is written as it is
handleEndOfFile_NoStrip(prev) == prev

\* handleEndOfFile: the bytes written for a non-empty pending chunk
handleEndOfFile(prev) == removePKCS7Padding(prev, Len(prev))

\* mutant: an input that ends right after its header is refused
D_Eof_RejectEmpty ==
    /\ d_pc = "eof"
    /\ IF Len(previousDecryptedData) > 0
       THEN LET finalData == handleEndOfFile(previousDecryptedData)
            IN  \E ok \in BOOLEAN, partial \in {0, 1} :
                   /\ ok => partial = 0
                   /\ outputFile' = Write(outputFile, finalData, ok, partial)
                   /\ d_log' = Append(d_log, LogWrite(finalData, ok))
                   /\ IF ok THEN DReturn(nil)
                      ELSE DReturn(Errorf("failed to write final block", "write error"))
       ELSE DReturn(Errorf("empty container", "none")) /\ UNCHANGED <<outputFile, d_log>>
    /\ UNCHANGED <<inputFile, d_password, d_pos, mode, d_bytesRead, d_readErr,
                   previousDecryptedData, currentDecrypted>>
    /\ UNCHANGED <<evars, mvars, gvars, svars, pvars>>

\* mutant: at end of input the pending chunk is dropped
D_Eof_SkipPending ==
    /\ d_pc = "eof"
    /\ DReturn(nil)
    /\ UNCHANGED <<outputFile, d_log>>
    /\ UNCHANGED <<inputFile, d_password, d_pos, mode, d_bytesRead, d_readErr,
                   previousDecryptedData, currentDecrypted>>
    /\ UNCHANGED <<evars, mvars, gvars, svars, pvars>>

\* DecryptStream, bytesRead == 0: handleEndOfFile
D_Eof ==
    /\ d_pc = "eof"
    /\ IF Len(previousDecryptedData) > 0
       THEN LET finalData == handleEndOfFile(previousDecryptedData)
            IN  \E ok \in BOOLEAN, partial \in {0, 1} :
                   /\ ok => partial = 0
                   /\ outputFile' = Write(outputFile, finalData, ok, partial)
                   /\ d_log' = Append(d_log, LogWrite(finalData, ok))
                   /\ IF ok THEN DReturn(nil)
                      ELSE DReturn(Errorf("failed to write final block", "write error"))
       ELSE DReturn(nil) /\ UNCHANGED <<outputFile, d_log>>
    /\ UNCHANGED <<inputFile, d_password, d_pos, mode, d_bytesRead, d_readErr,
                   previousDecryptedData, currentDecrypted>>
    /\ UNCHANGED <<evars, mvars, gvars, svars, pvars>>

\* mutant: a chunk that is not the last one is written at once, nothing is
\* kept pending
D_Process_WriteThrough ==
    /\ d_pc = "process"
    /\ \E ok \in BOOLEAN, partial \in {0, 1} :
          /\ ok => partial = 0
          /\ isLastBlockOf(d_bytesRead, d_readErr) => ok
          /\ IF ~isLastBlockOf(d_bytesRead, d_readErr)
             THEN /\ outputFile' = Write(outputFile, currentDecrypted, ok, partial)
                  /\ d_log' = Append(d_log, LogWrite(currentDecrypted, ok))
             ELSE UNCHANGED <<outputFile, d_log>>
          /\ IF ~ok
             THEN DReturn(Errorf("failed to write decrypted block", "write error"))
             ELSE IF isLastBlockOf(d_bytesRead, d_readErr)
             THEN d_pc' = "final" /\ UNCHANGED d_err
             ELSE IF d_readErr # "nil" /\ ~isEOFErr(d_readErr)
             THEN DReturn(Errorf("failed to read encrypted data", d_readErr))
             ELSE d_pc' = "read" /\ UNCHANGED d_err
    /\ UNCHANGED <<inputFile, d_password, d_pos, mode, d_bytesRead, d_readErr,
                   previousDecryptedData, currentDecrypted>>
    /\ UNCHANGED <<evars, mvars, gvars, svars, pvars>>

\* processDecryptionBlock: the write of the previous chunk, and the rest of
\* the loop iteration when the chunk is not the last one
D_Process ==
    /\ d_pc = "process"
    /\ \E ok \in BOOLEAN, partial \in {0, 1} :
          /\ ok => partial = 0
          /\ Len(previousDecryptedData) = 0 => ok
          /\ IF Len(previousDecryptedData) > 0
             THEN /\ outputFile' = Write(outputFile, previousDecryptedData, ok, partial)
                  /\ d_log' = Append(d_log, LogWrite(previousDecryptedData, ok))
             ELSE UNCHANGED <<outputFile, d_log>>
          /\ IF ~ok
             THEN /\ DReturn(Errorf("failed to write decrypted block", "write error"))
                  /\ UNCHANGED previousDecryptedData
             ELSE IF isLastBlockOf(d_bytesRead, d_readErr)
             THEN /\ d_pc' = "final"
                  /\ UNCHANGED <<previousDecryptedData, d_err>>
             ELSE /\ previousDecryptedData' = currentDecrypted
                  /\ IF d_readErr # "nil" /\ ~isEOFErr(d_readErr)
                     THEN DReturn(Errorf("failed to read encrypted data", d_readErr))
                     ELSE d_pc' = "read" /\ UNCHANGED d_err
    /\ UNCHANGED <<inputFile, d_password, d_pos, mode, d_bytesRead, d_readErr,
                   currentDecrypted>>
    /\ UNCHANGED <<evars, mvars, gvars, svars, pvars>>

\* processDecryptionBlock, isLastBlock: strip the padding, write, return
D_WriteFinal ==
    /\ d_pc = "final"
    /\ LET finalData == removePKCS7Padding(currentDecrypted, d_bytesRead)
       IN  \E ok \in BOOLEAN, partial \in {0, 1} :
              /\ ok => partial = 0
              /\ outputFile' = Write(outputFile, finalData, ok, partial)
              /\ d_log' = Append(d_log, LogWrite(finalData, ok))
              /\ IF ok THEN DReturn(nil)
                 ELSE DReturn(Errorf("failed to write final block", "write error"))
    /\ UNCHANGED <<inputFile, d_password, d_pos, mode, d_bytesRead, d_readErr,
                   previousDecryptedData, currentDecrypted>>
    /\ UNCHANGED <<evars, mvars, gvars, svars, pvars>>

Next ==
    \/ E_GenSalt
    \/ E_WriteMagic
    \/ E_WriteSalt
    \/ E_Read
    \/ E_Write
    \/ D_Start
    \/ D_ReadHeader
    \/ D_Read
    \/ D_Eof
    \/ D_Process
    \/ D_WriteFinal

Spec == Init /\ [][Next]_vars

(***************************************************************************)
(* Properties                                                              *)
(***************************************************************************)
DecryptsContainer == d_pc # "idle" /\ inputFile = w

SamePassword == d_password = password

DecryptEnded == d_pc \in {"done", "panic"}

\* C1: round trip.  DecryptStream with the same password on the container
\* EncryptStream produced from the plaintext returns nil and leaves exactly
\* the plaintext in the sink, for every length at and around the block and
\* chunk-buffer boundaries.
C1_RoundTrip ==
    (DecryptEnded /\ DecryptsContainer /\ SamePassword /\ CleanLog(d_log))
        => (d_pc = "done" /\ d_err = nil /\ outputFile = plain)

C1_Witness ==
    /\ d_pc = "done" /\ DecryptsContainer /\ SamePassword /\ CleanLog(d_log)
    /\ Len(plain) = bufferSize + 1
    /\ outputFile = plain

\* C2: ciphertext length.  After a successful EncryptStream the sink holds the
\* 16 header bytes and 16 * (L \div 16 + 1) ciphertext bytes, L being the number
\* of plaintext bytes the source delivered (all of the plaintext when no read
\* failed); so the ciphertext is a positive multiple of 16 that exceeds L by
\* 1 to 16 bytes.
C2_CiphertextLength ==
    (e_pc = "done" /\ e_err = nil)
        => LET N == Len(w) - headerSize
           IN  /\ N = BlockSize * ((e_pos \div BlockSize) + 1)
               /\ N > 0 /\ N % BlockSize = 0
               /\ N - e_pos \in 1 .. BlockSize
               /\ CleanLog(e_log) => e_pos = Len(plain)

C2_Witness ==
    /\ e_pc = "done" /\ e_err = nil /\ CleanLog(e_log)
    /\ Len(plain) = bufferSize
    /\ Len(w) = headerSize + bufferSize + BlockSize

\* the reference format: PKCS7 padding of the whole plaintext, encrypted by
\* one CBC call under the derived key and IV
ReferencePadding(p) ==
    LET k == BlockSize - (Len(p) % BlockSize) IN p \o [j \in 1 .. k |-> k]

ReferenceCiphertext(pw, s, p) ==
    LET kiv == deriveKeyAndIV(pw, s)
    IN  CBCEncryptBlocks(kiv.key, kiv.iv, ReferencePadding(p)).out

NoWriteFailed(log) == \A i \in 1 .. Len(log) : log[i].err # "write error"

\* C3: equivalence with the reference format.  The ciphertext chunks
\* EncryptStream wrote, concatenated, are the single-shot CBC encryption of
\* the padded plaintext; and between chunk calls the session's chaining value
\* is the last ciphertext block written (the derived IV before the first).
C3_ReferenceEquivalence ==
    /\ (e_pc = "done" /\ e_err = nil /\ d_pc = "idle")
          => Drop(w, headerSize) = ReferenceCiphertext(password, salt, Take(plain, e_pos))
    /\ (e_pc \in {"read", "write"} \/ (e_pc = "done" /\ e_err = nil))
          => cbc.iv = IF Len(w) > headerSize
                      THEN SubSeq(w, Len(w) - BlockSize + 1, Len(w))
                      ELSE deriveKeyAndIV(password, salt).iv

C3_Witness ==
    /\ e_pc = "done" /\ e_err = nil /\ CleanLog(e_log)
    /\ Len(plain) = MaxChunks * bufferSize + 1
    /\ Drop(w, headerSize) = ReferenceCiphertext(password, salt, plain)
    /\ Len(e_log) = 2 + 2 * (MaxChunks + 1)

HasBadMagic == Len(inputFile) >= headerSize /\ Take(inputFile, saltSize) # magicHeader

\* C4: header rejection.  On an input of at least 16 bytes whose first 8
\* bytes are not the magic tag, DecryptStream returns an error from the
\* header step and the sink stays empty.
C4_HeaderRejection ==
    (d_pc # "idle" /\ HasBadMagic)
        => /\ d_pc \in {"header", "done"}
           /\ d_pc = "done" => d_err # nil
           /\ outputFile = <<>>
           /\ NoWriteFailed(d_log) /\ Len(d_log) <= 1

C4_Witness ==
    /\ d_pc = "done" /\ HasBadMagic
    /\ inputFile[saltSize] # magicHeader[saltSize]
    /\ d_err = Errorf("invalid file format", "none")
    /\ Len(inputFile) > headerSize

HasShortHeader == Len(inputFile) < headerSize

C6_DeferredWriteSafety ==
    (DecryptsContainer /\ SamePassword) => IsPrefix(outputFile, plain)

C6_Witness ==
    /\ d_pc = "done" /\ DecryptsContainer /\ SamePassword /\ CleanLog(d_log)
    /\ Len(plain) = bufferSize - 1
    /\ Len(d_log) = 4
    /\ d_log[3].op = "read" /\ d_log[3].n = 0
    /\ outputFile = plain

ReadFailed(log) == \E i \in 1 .. Len(log) : log[i].err = "read error"

\* C7: a read of the chunk loop of EncryptStream that fails with an error
\* other than end-of-input makes EncryptStream return an error.
C7_EncryptReadFailurePropagated ==
    (e_pc = "done" /\ ReadFailed(e_log)) => e_err # nil

\* C8: after a valid header, a read of the chunk loop of DecryptStream that
\* fails with an error other than end-of-input makes the DecryptStream call
\* that returns return an error: the bytes read so far are not taken for the
\* complete stream.
C8_DecryptReadFailurePropagated ==
    (d_pc = "done" /\ Len(d_log) > 1 /\ d_log[1].err = "nil" /\ ReadFailed(d_log))
        => d_err # nil

\* a failed write is the last entry of the log, and the call has returned
\* an error
WriteFailureIsLast(log, pc, err) ==
    \A i \in 1 .. Len(log) :
        (log[i].op = "write" /\ log[i].err # "nil")
            => (i = Len(log) /\ pc = "done" /\ err # nil)

\* C9: errors are terminal.  In EncryptStream and in DecryptStream a failed
\* write to the sink is the last read or write of the call, and the call
\* returns an error.
C9_ErrorsTerminal ==
    /\ WriteFailureIsLast(e_log, e_pc, e_err)
    /\ WriteFailureIsLast(d_log, d_pc, d_err)

C9_Witness ==
    /\ d_pc = "done"
    /\ Len(d_log) = 4
    /\ d_log[4] = [op |-> "write", n |-> bufferSize, err |-> "write error"]
    /\ d_err = Errorf("failed to write decrypted block", "write error")
    /\ Len(e_log) > 2

\* C10: a wrong password never faults.  On the container EncryptStream made,
\* with another password and no failing read or write, DecryptStream does not
\* panic, returns, and writes between N-16 and N bytes, N being the length
\* of the ciphertext.
C10_WrongPasswordNeverFaults ==
    (DecryptsContainer /\ ~SamePassword /\ CleanLog(d_log))
        => /\ d_pc # "panic"
           /\ d_pc = "done" =>
                 LET N == Len(w) - headerSize
                 IN  /\ d_err = nil
                     /\ Len(outputFile) >= N - BlockSize
                     /\ Len(outputFile) <= N

C10_Witness ==
    /\ d_pc = "done" /\ DecryptsContainer /\ ~SamePassword /\ CleanLog(d_log)
    /\ d_err = nil
    /\ outputFile # plain
    /\ Len(outputFile) > bufferSize

HasValidHeader == Len(inputFile) >= headerSize /\ Take(inputFile, saltSize) = magicHeader

Body == Drop(inputFile, headerSize)

\* the body of the input, decrypted by one CBC call under the key and IV
\* derived from the password and the salt of the header
DecryptedBody ==
    LET kiv == deriveKeyAndIV(d_password, SubSeq(inputFile, saltSize + 1, headerSize))
    IN  CBCDecryptBlocks(kiv.key, kiv.iv, Body).out

\* C11: malformed padding is not an error.  On an input with a valid header
\* and a non-empty block-aligned body whose last decrypted byte is above 16,
\* DecryptStream (with no failing read or write) returns nil and writes the
\* whole decrypted body, the last chunk as it is.
C11_MalformedPaddingKept ==
    (/\ DecryptEnded /\ HasValidHeader /\ CleanLog(d_log)
     /\ Len(Body) > 0 /\ Len(Body) % BlockSize = 0
     /\ DecryptedBody[Len(Body)] > BlockSize)
        => (d_pc = "done" /\ d_err = nil /\ outputFile = DecryptedBody)

C11_Witness ==
    /\ d_pc = "done" /\ HasValidHeader /\ CleanLog(d_log)
    /\ SamePassword
    /\ inputFile = Take(w, Len(w) - BlockSize)
    /\ Len(Body) = bufferSize + BlockSize
    /\ DecryptedBody[Len(Body)] > BlockSize
    /\ Len(outputFile) = Len(Body)

\* C12: header-only container.  On an input that is exactly a valid 16-byte
\* header, DecryptStream (with no failing read) does not panic, returns nil
\* and leaves the sink empty.
C12_HeaderOnlyContainer ==
    (DecryptEnded /\ HasValidHeader /\ Len(inputFile) = headerSize /\ CleanLog(d_log))
        => (d_pc = "done" /\ d_err = nil /\ outputFile = <<>>)

C12_Witness ==
    /\ d_pc = "done" /\ HasValidHeader /\ Len(inputFile) = headerSize
    /\ CleanLog(d_log)
    /\ d_log = <<[op |-> "read", n |-> headerSize, err |-> "nil"],
                 [op |-> "read", n |-> 0, err |-> "EOF"]>>
    /\ d_err = nil /\ outputFile = <<>>

\* C13: header ordering.  The first two writes of EncryptStream are the 8
\* bytes of the magic tag and the 8 bytes of the salt; no read of the source
\* and no ciphertext write comes before them; and the key of the session is
\* derived from the salt that stands in the header.
C13_HeaderOrdering ==
    /\ Len(e_log) >= 1 => e_log[1] = [op |-> "write", n |-> saltSize, err |-> e_log[1].err]
    /\ Len(e_log) >= 2 => e_log[2] = [op |-> "write", n |-> saltSize, err |-> e_log[2].err]
    /\ \A i \in 1 .. Len(e_log) : e_log[i].op = "read" => i >= 3
    /\ Len(e_log) >= 3 =>
          /\ e_log[1].err = "nil" /\ e_log[2].err = "nil"
          /\ Take(w, saltSize) = magicHeader
          /\ SubSeq(w, saltSize + 1, headerSize) = salt
          /\ cbc.key = deriveKeyAndIV(password, SubSeq(w, saltSize + 1, headerSize)).key
    /\ e_pc = "read" => (Len(w) >= headerSize /\ Take(w, headerSize) = magicHeader \o salt)

C13_Witness ==
    /\ e_pc = "read" /\ Len(e_log) = 2 /\ e_pos = 0
    /\ w = magicHeader \o salt
    /\ Len(salt) = saltSize
    /\ cbc.key = deriveKeyAndIV(password, salt).key

SessionOpen == e_pc \in {"read", "write"} \/ (e_pc = "done" /\ Len(e_log) >= 3)

\* C15: key/IV split.  The session key is bytes 1..32 and the initial
\* chaining value bytes 33..48 of one 48-byte derived block, for every
\* password (the empty one included) and salt; the key is 32 bytes, the IV
\* 16, together they are the whole block; DecryptStream derives the same key
\* from the same password and header salt; and neither call ever fails in
\* the cipher setup.
C15_KeyIVSplit ==
    /\ SessionOpen =>
          LET keyIv == pbkdf2Key(password, salt, aes256KeySize + BlockSize)
          IN  /\ Len(keyIv) = 48
              /\ cbc.key = SubSeq(keyIv, 1, 32) /\ Len(cbc.key) = 32
              /\ Len(cbc.iv) = 16
              /\ Len(e_log) = 2 => (cbc.iv = SubSeq(keyIv, 33, 48) /\ cbc.key \o cbc.iv = keyIv)
    /\ d_pc \in {"read", "eof", "process", "final"} =>
          /\ Len(mode.key) = 32 /\ Len(mode.iv) = 16
          /\ mode.key = SubSeq(pbkdf2Key(d_password, SubSeq(inputFile, saltSize + 1, headerSize),
                                         aes256KeySize + BlockSize), 1, 32)
          /\ (DecryptsContainer /\ SamePassword) => mode.key = cbc.key
          /\ (DecryptsContainer /\ SamePassword /\ Len(d_log) = 1)
                => mode.iv = deriveKeyAndIV(password, salt).iv
    /\ e_err.msg # "error creating AES cipher"
    /\ d_err.msg # "failed to create cipher"

C15_Witness ==
    /\ password = <<>>
    /\ d_pc = "read" /\ Len(d_log) = 1 /\ DecryptsContainer /\ SamePassword
    /\ Len(mode.key) = 32 /\ Len(mode.iv) = 16
    /\ mode.key = cbc.key

\* C19: padding exactly once, at the end.  In a successful EncryptStream the
\* last ciphertext write is the only padded one (the bytes of the last read
\* plus 1 to 16); every earlier ciphertext write is one full buffer read and
\* written unpadded, so the ciphertext before the last write is a multiple of
\* the buffer size.
C19_PaddingOnceAtEnd ==
    (e_pc = "done" /\ e_err = nil) =>
        LET k == Len(e_log)
        IN  /\ k >= 4
            /\ e_log[k].op = "write"
            /\ \A i \in 3 .. k :
                  e_log[i].op = "write" =>
                      /\ e_log[i - 1].op = "read"
                      /\ IF i = k
                         THEN e_log[i].n = e_log[i - 1].n + BlockSize
                                               - (e_log[i - 1].n % BlockSize)
                         ELSE e_log[i].n = bufferSize /\ e_log[i - 1].n = bufferSize
            /\ (Len(w) - headerSize - e_log[k].n) % bufferSize = 0
            /\ (Len(w) - headerSize - e_log[k].n) % BlockSize = 0

C19_Witness ==
    /\ e_pc = "done" /\ e_err = nil /\ CleanLog(e_log)
    /\ Len(plain) = MaxChunks * bufferSize + 1
    /\ e_log[Len(e_log) - 1].n = 1
    /\ e_log[Len(e_log)].n = BlockSize
    /\ Len(w) - headerSize - BlockSize = MaxChunks * bufferSize

\* the chaining value before the last block of the sink was encrypted
ChainingBeforeLastBlock ==
    IF Len(w) >= headerSize + 2 * BlockSize
    THEN SubSeq(w, Len(w) - 2 * BlockSize + 1, Len(w) - BlockSize)
    ELSE deriveKeyAndIV(password, salt).iv

\* C20: zero-byte final read.  When the last read of EncryptStream delivers
\* no byte, the chunk handed to the cipher is one block of sixteen bytes of
\* value 16, whether or not full buffers were written before, and the last
\* write is the encryption of that block.
C20_ZeroByteFinalRead ==
    /\ (e_pc = "write" /\ bytesRead = 0) =>
          /\ EncryptChunk = [j \in 1 .. 16 |-> 16]
          /\ processFinalBlock(readBuffer, 0, TRUE) = processFinalBlock(readBuffer, 0, FALSE)
    /\ (e_pc = "done" /\ e_err = nil /\ d_pc = "idle" /\ bytesRead = 0) =>
          /\ e_log[Len(e_log)] = [op |-> "write", n |-> BlockSize, err |-> "nil"]
          /\ SubSeq(w, Len(w) - BlockSize + 1, Len(w))
                = EncryptBlock(cbc.key, XorBlock([j \in 1 .. 16 |-> 16], ChainingBeforeLastBlock))

C20_Witness ==
    /\ e_pc = "done" /\ e_err = nil /\ CleanLog(e_log)
    /\ bytesRead = 0 /\ hasWrittenData
    /\ Len(plain) = bufferSize
    /\ e_log[Len(e_log)] = [op |-> "write", n |-> BlockSize, err |-> "nil"]

(***************************************************************************)
(* Two calls at once: EncryptStream on one source and sink, DecryptStream  *)
(* on another container with its own password                             *)
(***************************************************************************)
\* the container of plaintext p under password pw and salt s
ContainerOf(pw, s, p) == magicHeader \o s \o ReferenceCiphertext(pw, s, p)

\* the containers the concurrent DecryptStream is run on: no ciphertext but
\* the padding block, and more than one chunk buffer of ciphertext
ConcurrentInputs ==
    {ContainerOf(pw, <<9, 8, 7, 6, 5, 4, 3, 2>>, PlainOf(L, 200)) :
        pw \in Passwords, L \in {0, bufferSize + 1}}

\* the sources the concurrent EncryptStream is run on: less than a block, and
\* more than one chunk buffer
ConcurrentPlaintexts == {PlainOf(L, 16) : L \in {BlockSize - 1, bufferSize + 1}}

InitConcurrent ==
    /\ StripIdle
    /\ PhcIdle
    /\ ManagerIdle
    /\ GeneratorIdle
    /\ plain \in ConcurrentPlaintexts
    /\ password \in Passwords
    /\ e_pc = "salt"
    /\ e_pos = 0
    /\ w = <<>>
    /\ salt = <<>>
    /\ cbc = NoSession
    /\ readBuffer = <<>>
    /\ bytesRead = 0
    /\ readErr = "nil"
    /\ hasWrittenData = FALSE
    /\ e_err = nil
    /\ e_log = <<>>
    /\ inputFile \in ConcurrentInputs
    /\ d_password \in Passwords
    /\ d_pc = "header"
    /\ d_pos = 0
    /\ outputFile = <<>>
    /\ mode = NoSession
    /\ d_bytesRead = 0
    /\ d_readErr = "nil"
    /\ previousDecryptedData = <<>>
    /\ currentDecrypted = <<>>
    /\ d_err = nil
    /\ d_log = <<>>

NextConcurrent ==
    \/ E_GenSalt
    \/ E_WriteMagic
    \/ E_WriteSalt
    \/ E_Read
    \/ E_Write
    \/ D_ReadHeader
    \/ D_Read
    \/ D_Eof
    \/ D_Process
    \/ D_WriteFinal

SpecConcurrent == InitConcurrent /\ [][NextConcurrent]_vars

\* what DecryptStream alone leaves in the sink for a container with a whole
\* header and whole blocks: the decrypted body, the last chunk stripped
DecryptAlone ==
    LET n       == Len(Body)
        lastLen == IF n % bufferSize = 0 THEN Min(n, bufferSize) ELSE n % bufferSize
    IN  Take(DecryptedBody, n - lastLen)
            \o removePKCS7Padding(Drop(DecryptedBody, n - lastLen), lastLen)

\* the chaining value DecryptStream holds after consuming d_pos bytes
DecryptChaining ==
    IF d_pos > headerSize
    THEN SubSeq(inputFile, d_pos - BlockSize + 1, d_pos)
    ELSE deriveKeyAndIV(d_password, SubSeq(inputFile, saltSize + 1, headerSize)).iv

\* C14: session independence.  With EncryptStream and DecryptStream running
\* at once on different sources, sinks and key material, under every
\* interleaving of their steps, each sink holds what that call leaves when it
\* runs alone, and each call's chaining value and pending chunk come from its
\* own stream only.
C14_SessionIndependence ==
    /\ (e_pc = "done" /\ e_err = nil)
          => w = ContainerOf(password, salt, Take(plain, e_pos))
    /\ (e_pc \in {"read", "write"} /\ Len(w) >= headerSize + BlockSize)
          => cbc.iv = SubSeq(w, Len(w) - BlockSize + 1, Len(w))
    /\ (d_pc = "done" /\ HasValidHeader /\ Len(Body) % BlockSize = 0 /\ CleanLog(d_log))
          => (d_err = nil /\ outputFile = DecryptAlone)
    /\ (d_pc \in {"read", "process"} /\ CleanLog(d_log))
          => /\ mode.iv = DecryptChaining
             /\ mode.key = deriveKeyAndIV(d_password,
                                          SubSeq(inputFile, saltSize + 1, headerSize)).key
    /\ (d_pc = "read" /\ d_pos > headerSize /\ Len(Body) % BlockSize = 0 /\ CleanLog(d_log))
          => previousDecryptedData
                = SubSeq(DecryptedBody, d_pos - headerSize - d_bytesRead + 1, d_pos - headerSize)

\* both calls are in the middle of their streams, with different passwords
C14_Witness ==
    /\ e_pc = "write" /\ hasWrittenData /\ cbc # NoSession
    /\ d_pc = "read" /\ d_pos = headerSize + bufferSize /\ previousDecryptedData # <<>>
    /\ password # d_password
    /\ cbc.key # mode.key /\ cbc.iv # mode.iv
    /\ inputFile # w

(***************************************************************************)
(* Package rumtpl: NewManagerFromFS and Manager.Render                     *)
(*                                                                         *)
(* A path is the sequence of its elements, an element the sequence of its  *)
(* dot-separated parts: templates/home.html.tmpl is                        *)
(* << <<"templates">>, <<"home", "html", "tmpl">> >>.  A template text is  *)
(* the sequence of its pieces: literal text, {{.Field}} actions, and an    *)
(* action that is never closed.                                            *)
(***************************************************************************)
\* the stream codec is not in use
CodecIdle ==
    /\ plain = <<>>
    /\ password = <<>>
    /\ e_pc = "idle"
    /\ e_pos = 0
    /\ w = <<>>
    /\ salt = <<>>
    /\ cbc = NoSession
    /\ readBuffer = <<>>
    /\ bytesRead = 0
    /\ readErr = "nil"
    /\ hasWrittenData = FALSE
    /\ e_err = nil
    /\ e_log = <<>>
    /\ inputFile = <<>>
    /\ d_password = <<>>
    /\ d_pc = "idle"
    /\ d_pos = 0
    /\ outputFile = <<>>
    /\ mode = NoSession
    /\ d_bytesRead = 0
    /\ d_readErr = "nil"
    /\ previousDecryptedData = <<>>
    /\ currentDecrypted = <<>>
    /\ d_err = nil
    /\ d_log = <<>>

ErrTemplateError == Errorf("template error", "none")

Text(v) == [kind |-> "text", v |-> v]

Field(v) == [kind |-> "field", v |-> v]

Unclosed(v) == [kind |-> "unclosed", v |-> v]

\* the files a file system is built from, in the order fs.WalkDir visits
\* them: the entries of each directory sorted by name
FileUniverse ==
    << [path |-> << <<"home", "html", "tmpl">> >>,
        data |-> <<Text("Hello "), Field("Name")>>],
       [path |-> << <<"other">>, <<"skip", "txt">> >>,
        data |-> <<Text("skip this")>>],
       [path |-> << <<"templates">>, <<"about", "html", "tmpl">> >>,
        data |-> <<Text("About page")>>],
       [path |-> << <<"templates">>, <<"bad", "tmpl">> >>,
        data |-> <<Unclosed("Invalid")>>],
       [path |-> << <<"templates">>, <<"home", "html", "tmpl">> >>,
        data |-> <<Text("Hello "), Field("Name")>>],
       [path |-> << <<"templates">>, <<"pages">>, <<"home", "html", "tmpl">> >>,
        data |-> <<Text("Page: "), Field("Title")>>] >>

FileSystems == SUBSET {FileUniverse[i] : i \in 1 .. Len(FileUniverse)}

\* *.tmpl and *.html.tmpl
Patterns == {<<"*", "tmpl">>, <<"*", "html", "tmpl">>}

\* fs.WalkDir(fsys, "."): the files of fsys in walk order
WalkDir(files) == SelectSeq(FileUniverse, LAMBDA f : f \in files)

\* filepath.Base: the last element of the path, a path of its own
Base(path) == <<path[Len(path)]>>

\* filepath.Match(pattern, name) for a name without separator: a leading *
\* takes any run of characters, dots included, the rest must be the end of
\* the name; a pattern without * must be the name
Match(pat, name) ==
    IF pat # <<>> /\ Head(pat) = "*"
    THEN /\ Len(name) >= Len(pat)
         /\ SubSeq(name, Len(name) - Len(pat) + 2, Len(name)) = Tail(pat)
    ELSE pat = name

\* template.New("rum"): the set holds the root template, which has no tree
NoTree == <<>>

RootName == << <<"rum">> >>

NewTemplate == [n \in {RootName} |-> NoTree]

\* (*Template).Parse: an action that is never closed is a parse error
Parse(text) ==
    IF \E i \in 1 .. Len(text) : text[i].kind = "unclosed"
    THEN [tree |-> NoTree, err |-> Errorf("template: unclosed action", "parse")]
    ELSE [tree |-> text, err |-> nil]

\* t.New(filepath.Base(path)).Parse(...): the tree is associated with the base
\* name, replacing a template of that name
Register(t, path, tree) ==
    [n \in DOMAIN t \cup {Base(path)} |-> IF n = Base(path) THEN tree ELSE t[n]]

RECURSIVE WalkFiles(_, _, _)
\* the callback of fs.WalkDir, file after file, until one returns an error
WalkFiles(files, pat, t) ==
    IF files = <<>> THEN [t |-> t, err |-> nil]
    ELSE LET f == Head(files)
         IN  IF ~Match(pat, Base(f.path)[1])
             THEN WalkFiles(Tail(files), pat, t)
             ELSE LET p == Parse(f.data)
                  IN  IF p.err # nil
                      THEN [t |-> NoManager, err |-> p.err]
                      ELSE WalkFiles(Tail(files), pat, Register(t, f.path, p.tree))

NewManagerFromFS(files, pat) == WalkFiles(WalkDir(files), pat, NewTemplate)

\* the escaping html/template applies to a value in text context
HTMLEscape(v) == IF v = "<b>" THEN "&lt;b&gt;" ELSE v

\* (*Template).Execute: a template without tree cannot be executed
Execute(tree, data) ==
    IF tree = NoTree
    THEN [out |-> <<>>, err |-> Errorf("incomplete or empty template", "exec")]
    ELSE [out |-> [i \in 1 .. Len(tree) |->
                     IF tree[i].kind = "text" THEN tree[i].v
                     ELSE HTMLEscape(data[tree[i].v])],
          err |-> nil]

\* Manager.Render
Render(t, name, data) ==
    IF name \notin DOMAIN t
    THEN [out |-> <<>>, err |-> ErrTemplateError]
    ELSE LET x == Execute(t[name], data)
         IN  IF x.err # nil THEN [out |-> <<>>, err |-> x.err] ELSE x

\* the names Render is called with: every path of the universe, every base
\* name, a name no file has, and the name of the root template
RenderNames ==
    {FileUniverse[i].path : i \in 1 .. Len(FileUniverse)}
    \cup {Base(FileUniverse[i].path) : i \in 1 .. Len(FileUniverse)}
    \cup {<< <<"notfound", "tmpl">> >>, RootName}

RenderData ==
    {[Name |-> "World", Title |-> "Home"], [Name |-> "<b>", Title |-> ""]}

InitManager ==
    /\ StripIdle
    /\ PhcIdle
    /\ CodecIdle
    /\ GeneratorIdle
    /\ fsys \in FileSystems
    /\ pattern \in Patterns
    /\ m_pc = "new"
    /\ m_t = NoManager
    /\ m_err = nil
    /\ r_name = <<>>
    /\ r_data = <<>>
    /\ r_out = <<>>
    /\ r_err = nil

M_NewManagerFromFS ==
    /\ m_pc = "new"
    /\ LET res == NewManagerFromFS(fsys, pattern)
       IN  /\ m_t' = res.t
           /\ m_err' = res.err
           /\ m_pc' = IF res.err = nil THEN "ready" ELSE "failed"
    /\ UNCHANGED <<fsys, pattern, r_name, r_data, r_out, r_err>>
    /\ UNCHANGED <<evars, dvars, gvars, svars, pvars>>

M_Render ==
    /\ m_pc \in {"ready", "rendered"}
    /\ \E name \in RenderNames, data \in RenderData :
          LET res == Render(m_t, name, data)
          IN  /\ r_name' = name
              /\ r_data' = data
              /\ r_out' = res.out
              /\ r_err' = res.err
    /\ m_pc' = "rendered"
    /\ UNCHANGED <<fsys, pattern, m_t, m_err>>
    /\ UNCHANGED <<evars, dvars, gvars, svars, pvars>>

NextManager ==
    \/ M_NewManagerFromFS
    \/ M_Render

SpecManager == InitManager /\ [][NextManager]_vars

\* the files NewManagerFromFS parses
MatchingFiles == {f \in fsys : Match(pattern, Base(f.path)[1])}

\* C16: template lookup by full path.  For every file whose base name
\* matches the pattern, files in subdirectories included, Render called with
\* the file's full path finds the template and returns its rendering.
C16_LookupByFullPath ==
    (m_pc = "rendered" /\ \E f \in MatchingFiles : f.path = r_name)
        => LET f == CHOOSE g \in MatchingFiles : g.path = r_name
           IN  /\ r_err = nil
               /\ r_out = Execute(Parse(f.data).tree, r_data).out

\* the names NewManagerFromFS registers for files
RegisteredNames == {Base(f.path) : f \in MatchingFiles}

\* C17: unknown template.  For every name NewManagerFromFS registered for no
\* file, Render returns exactly ErrTemplateError and no bytes; and a file
\* whose base name does not match the pattern is never registered.
C17_UnknownTemplate ==
    /\ (m_pc = "rendered" /\ r_name \notin RegisteredNames)
          => (r_err = ErrTemplateError /\ r_out = <<>>)
    /\ m_pc \in {"ready", "rendered"}
          => \A f \in fsys \ MatchingFiles : Base(f.path) \notin DOMAIN m_t

(***************************************************************************)
(* Package generator: TemplatesGenerator.Generate                          *)
(*                                                                         *)
(* Paths, patterns and constant names are strings: sequences of            *)
(* characters.  config.Root is the directory the paths are relative to.    *)
(***************************************************************************)
\* "templates/"
S_templates_ ==
    <<"t", "e", "m", "p", "l", "a", "t", "e", "s", "/">>

\* "template/"
S_template_ ==
    <<"t", "e", "m", "p", "l", "a", "t", "e", "/">>

\* "/"
S_slash ==
    <<"/">>

\* "."
S_dot ==
    <<".">>

\* "*"
S_star ==
    <<"*">>

\* "templates/a/b/test.html.tmpl"
P_a_b_test ==
    <<"t", "e", "m", "p", "l", "a", "t", "e", "s", "/", "a", "/", "b", "/",
      "t", "e", "s", "t", ".", "h", "t", "m", "l", ".", "t", "m", "p", "l">>

\* "templates/a/test.html.tmpl"
P_a_test ==
    <<"t", "e", "m", "p", "l", "a", "t", "e", "s", "/", "a", "/", "t", "e",
      "s", "t", ".", "h", "t", "m", "l", ".", "t", "m", "p", "l">>

\* "templates/a-b/test.html.tmpl"
P_ab_test ==
    <<"t", "e", "m", "p", "l", "a", "t", "e", "s", "/", "a", "-", "b", "/",
      "t", "e", "s", "t", ".", "h", "t", "m", "l", ".", "t", "m", "p", "l">>

\* "templates/b/test.html.tmpl"
P_b_test ==
    <<"t", "e", "m", "p", "l", "a", "t", "e", "s", "/", "b", "/", "t", "e",
      "s", "t", ".", "h", "t", "m", "l", ".", "t", "m", "p", "l">>

\* "templates/bad.html.tmpl"
P_bad ==
    <<"t", "e", "m", "p", "l", "a", "t", "e", "s", "/", "b", "a", "d", ".",
      "h", "t", "m", "l", ".", "t", "m", "p", "l">>

\* "templates/notes.txt"
P_notes ==
    <<"t", "e", "m", "p", "l", "a", "t", "e", "s", "/", "n", "o", "t", "e",
      "s", ".", "t", "x", "t">>

\* "templates/**/*.tmpl"
D_recursive ==
    <<"t", "e", "m", "p", "l", "a", "t", "e", "s", "/", "*", "*", "/", "*",
      ".", "t", "m", "p", "l">>

\* "templates/*.tmpl"
D_flat ==
    <<"t", "e", "m", "p", "l", "a", "t", "e", "s", "/", "*", ".", "t", "m",
      "p", "l">>

\* "templates/a/*.tmpl"
D_a ==
    <<"t", "e", "m", "p", "l", "a", "t", "e", "s", "/", "a", "/", "*", ".",
      "t", "m", "p", "l">>

\* "templates/b/*.tmpl"
D_b ==
    <<"t", "e", "m", "p", "l", "a", "t", "e", "s", "/", "b", "/", "*", ".",
      "t", "m", "p", "l">>

\* "views/**/*.tmpl"
D_views ==
    <<"v", "i", "e", "w", "s", "/", "*", "*", "/", "*", ".", "t", "m", "p",
      "l">>

\* "ABTest"
N_ABTest ==
    <<"A", "B", "T", "e", "s", "t">>

\* "UserProfile"
N_UserProfile ==
    <<"U", "s", "e", "r", "P", "r", "o", "f", "i", "l", "e">>

\* "templates/user-profile.html.tmpl"
P_user_profile ==
    <<"t", "e", "m", "p", "l", "a", "t", "e", "s", "/", "u", "s", "e", "r",
      "-", "p", "r", "o", "f", "i", "l", "e", ".", "h", "t", "m", "l", ".",
      "t", "m", "p", "l">>

\* "Simple"
N_Simple ==
    <<"S", "i", "m", "p", "l", "e">>

\* "template/simple.tmpl"
P_simple ==
    <<"t", "e", "m", "p", "l", "a", "t", "e", "/", "s", "i", "m", "p", "l",
      "e", ".", "t", "m", "p", "l">>

\* the extensions pathToPascalCase removes, in the order it tries them
Extensions ==
    << <<".", "t", "m", "p", "l">>,
       <<".", "h", "t", "m", "l">>,
       <<".", "t", "x", "t">>,
       <<".", "y", "a", "m", "l">>,
       <<".", "j", "s", "o", "n">>,
       <<".", "t", "e", "m", "p", "l", "a", "t", "e">> >>

LowerCase ==
    <<"a", "b", "c", "d", "e", "f", "g", "h", "i", "j", "k", "l", "m", "n",
      "o", "p", "q", "r", "s", "t", "u", "v", "w", "x", "y", "z">>

UpperCase ==
    <<"A", "B", "C", "D", "E", "F", "G", "H", "I", "J", "K", "L", "M", "N",
      "O", "P", "Q", "R", "S", "T", "U", "V", "W", "X", "Y", "Z">>

\* strings.ToUpper and strings.ToLower on one character
ToUpper(c) ==
    IF \E i \in 1 .. Len(LowerCase) : LowerCase[i] = c
    THEN UpperCase[CHOOSE i \in 1 .. Len(LowerCase) : LowerCase[i] = c]
    ELSE c

ToLower(c) ==
    IF \E i \in 1 .. Len(UpperCase) : UpperCase[i] = c
    THEN LowerCase[CHOOSE i \in 1 .. Len(UpperCase) : UpperCase[i] = c]
    ELSE c

TrimPrefix(s, prefix) == IF IsPrefix(prefix, s) THEN Drop(s, Len(prefix)) ELSE s

TrimSuffix(s, suffix) ==
    IF Len(s) >= Len(suffix) /\ Drop(s, Len(s) - Len(suffix)) = suffix
    THEN Take(s, Len(s) - Len(suffix))
    ELSE s

RECURSIVE TrimSuffixes(_, _)
\* the TrimSuffix calls of pathToPascalCase, one after the other
TrimSuffixes(s, exts) ==
    IF exts = <<>> THEN s ELSE TrimSuffixes(TrimSuffix(s, Head(exts)), Tail(exts))

\* the characters of the class [-_./\\]
Separators == {"-", "_", ".", "/", "\\"}

\* re.ReplaceAllString(path, " ")
ReplaceSeparators(s) == [i \in 1 .. Len(s) |-> IF s[i] \in Separators THEN " " ELSE s[i]]

RECURSIVE Fields(_)
\* strings.Fields: the words between runs of spaces
Fields(s) ==
    IF s = <<>> THEN <<>>
    ELSE IF Head(s) = " " THEN Fields(Tail(s))
    ELSE LET stops == {i \in 1 .. Len(s) : s[i] = " "}
             n     == IF stops = {} THEN Len(s)
                      ELSE (CHOOSE i \in stops : \A j \in stops : i <= j) - 1
         IN  <<Take(s, n)>> \o Fields(Drop(s, n))

\* strings.ToUpper(string(word[0])) + strings.ToLower(word[1:])
TitleWord(word) ==
    <<ToUpper(word[1])>> \o [i \in 1 .. Len(word) - 1 |-> ToLower(word[i + 1])]

RECURSIVE Join(_)
\* strings.Join(words, "")
Join(words) == IF words = <<>> THEN <<>> ELSE Head(words) \o Join(Tail(words))

pathToPascalCase(path) ==
    LET trimmed == TrimPrefix(TrimPrefix(path, S_templates_), S_template_)
        bare    == TrimSuffixes(trimmed, Extensions)
        words   == Fields(ReplaceSeparators(bare))
    IN  Join([i \in 1 .. Len(words) |-> TitleWord(words[i])])

RECURSIVE GlobMatch(_, _)
\* filepath.Match: * takes any run of characters other than the separator
GlobMatch(pat, name) ==
    IF pat = <<>> THEN name = <<>>
    ELSE IF Head(pat) = "*"
    THEN \E k \in 0 .. Len(name) :
            /\ \A i \in 1 .. k : name[i] # "/"
            /\ GlobMatch(Tail(pat), Drop(name, k))
    ELSE name # <<>> /\ Head(name) = Head(pat) /\ GlobMatch(Tail(pat), Tail(name))

\* strings.Index(pattern, "**"), counted from 0; -1 when there is none
IndexOfStars(pat) ==
    LET at == {i \in 1 .. Len(pat) - 1 : pat[i] = "*" /\ pat[i + 1] = "*"}
    IN  IF at = {} THEN -1 ELSE (CHOOSE i \in at : \A j \in at : i <= j) - 1

splitRecursivePattern(pat) ==
    LET idx == IndexOfStars(pat)
    IN  IF idx = -1 THEN [baseDir |-> S_dot, filePattern |-> pat]
        ELSE LET baseDir   == TrimSuffix(Take(pat, idx), S_slash)
                 remainder == TrimPrefix(Drop(pat, idx + 2), S_slash)
             IN  [baseDir     |-> IF baseDir = <<>> THEN S_dot ELSE baseDir,
                  filePattern |-> IF remainder = <<>> THEN S_star ELSE remainder]

\* d.Name(), filepath.Base(path): what follows the last separator
FileNameOf(path) ==
    LET at == {i \in 1 .. Len(path) : path[i] = "/"}
    IN  IF at = {} THEN path ELSE Drop(path, CHOOSE i \in at : \A j \in at : j <= i)

\* the files under config.Root, in the order filepath.WalkDir and
\* filepath.Glob return them: the entries of each directory sorted by name
GenUniverse ==
    << [path |-> P_a_b_test, data |-> <<Text("AB")>>],
       [path |-> P_a_test, data |-> <<Text("A")>>],
       [path |-> P_ab_test, data |-> <<Text("A-B")>>],
       [path |-> P_b_test, data |-> <<Text("B")>>],
       [path |-> P_bad, data |-> <<Unclosed("Invalid")>>],
       [path |-> P_notes, data |-> <<Text("notes")>>] >>

GenFileSystems == SUBSET {GenUniverse[i] : i \in 1 .. Len(GenUniverse)}

\* config.Dirs
DirConfigs ==
    { <<D_recursive>>, <<D_flat>>, <<D_a, D_b>>, <<D_a, D_recursive>>, <<D_views>> }

\* the directory templates is always there; any other directory is there
\* when a file lies under it
DirExists(files, dir) ==
    \/ dir = S_dot
    \/ dir \o S_slash = S_templates_
    \/ \E f \in files : IsPrefix(dir \o S_slash, f.path)

TemplateInfo(path) ==
    [FileName |-> FileNameOf(path), RelPath |-> path, ConstName |-> pathToPascalCase(path)]

scanDir(files, pat) ==
    IF IndexOfStars(pat) # -1
    THEN LET sp == splitRecursivePattern(pat)
         IN  IF ~DirExists(files, sp.baseDir)
             THEN [templates |-> <<>>, err |-> Errorf("lstat", "no such file or directory")]
             ELSE LET hit(f) == /\ f \in files
                                /\ sp.baseDir = S_dot \/ IsPrefix(sp.baseDir \o S_slash, f.path)
                                /\ GlobMatch(sp.filePattern, FileNameOf(f.path))
                      found == SelectSeq(GenUniverse, hit)
                  IN  [templates |-> [i \in 1 .. Len(found) |-> TemplateInfo(found[i].path)],
                       err       |-> nil]
    ELSE LET hit(f) == f \in files /\ GlobMatch(pat, f.path)
             found == SelectSeq(GenUniverse, hit)
         IN  [templates |-> [i \in 1 .. Len(found) |-> TemplateInfo(found[i].path)],
              err       |-> nil]

RECURSIVE CheckDuplicates(_, _)
\* the duplicate check of Generate over the templates of one entry of Dirs
CheckDuplicates(templates, seen) ==
    IF templates = <<>> THEN [seen |-> seen, err |-> nil]
    ELSE LET t == Head(templates)
         IN  IF t.ConstName \in DOMAIN seen
             THEN [seen |-> seen, err |-> Errorf("duplicate constant name", "none")]
             ELSE CheckDuplicates(Tail(templates),
                                  [n \in DOMAIN seen \cup {t.ConstName} |->
                                      IF n = t.ConstName THEN t.RelPath ELSE seen[n]])

\* the content of the file at a relative path
ContentOf(relPath) ==
    (CHOOSE f \in {GenUniverse[i] : i \in 1 .. Len(GenUniverse)} : f.path = relPath).data

\* mutant: every template passes
validateTemplates_AcceptAll(templates) == nil

validateTemplates(templates) ==
    IF \E i \in 1 .. Len(templates) : Parse(ContentOf(templates[i].RelPath)).err # nil
    THEN Errorf("template validation failed", "parse")
    ELSE nil

RECURSIVE ReplaceStars(_)
\* strings.ReplaceAll(dir, "**", "*")
ReplaceStars(s) ==
    IF s = <<>> THEN <<>>
    ELSE IF Len(s) >= 2 /\ s[1] = "*" /\ s[2] = "*"
    THEN S_star \o ReplaceStars(Drop(s, 2))
    ELSE <<Head(s)>> \o ReplaceStars(Tail(s))

\* what outputTemplate renders: package, embed patterns, constants
GeneratedFile(dirs, templates) ==
    [kind          |-> "generated",
     Package       |-> "main",
     EmbedPatterns |-> {ReplaceStars(dirs[i]) : i \in 1 .. Len(dirs)},
     Templates     |-> [i \in 1 .. Len(templates) |->
                          [ConstName |-> templates[i].ConstName,
                           RelPath   |-> templates[i].RelPath]]]

\* a templates_gen.go of an earlier run; a file os.WriteFile opened and
\* could not fill
OldFile == [kind |-> "old"]

TruncatedFile == [kind |-> "truncated"]

InitGenerator ==
    /\ StripIdle
    /\ PhcIdle
    /\ CodecIdle
    /\ ManagerIdle
    /\ g_files \in GenFileSystems
    /\ g_dirs \in DirConfigs
    /\ g_pc = "scan"
    /\ g_i = 1
    /\ seenNames = <<>>
    /\ allTemplates = <<>>
    /\ g_out \in {NoFile, OldFile}
    /\ g_err = nil

GReturn(err) == g_pc' = "done" /\ g_err' = err

\* one turn of the loop over config.Dirs: scanDir, then the duplicate check
G_ScanDir ==
    /\ g_pc = "scan"
    /\ LET sc == scanDir(g_files, g_dirs[g_i])
           ck == CheckDuplicates(sc.templates, seenNames)
       IN  IF sc.err # nil
           THEN /\ GReturn(Errorf("scanning", sc.err.msg))
                /\ UNCHANGED <<seenNames, allTemplates, g_i>>
           ELSE /\ seenNames' = ck.seen
                /\ IF ck.err # nil
                   THEN GReturn(ck.err) /\ UNCHANGED <<allTemplates, g_i>>
                   ELSE /\ allTemplates' = allTemplates \o sc.templates
                        /\ g_i' = g_i + 1
                        /\ g_pc' = IF g_i = Len(g_dirs) THEN "validate" ELSE "scan"
                        /\ UNCHANGED g_err
    /\ UNCHANGED <<g_files, g_dirs, g_out>>
    /\ UNCHANGED <<evars, dvars, mvars, svars, pvars>>

\* after the loop: the check for no template, then validateTemplates
G_Validate ==
    /\ g_pc = "validate"
    /\ IF Len(allTemplates) = 0
       THEN GReturn(Errorf("no templates found in configured dirs", "none"))
       ELSE LET err == validateTemplates(allTemplates)
            IN  IF err # nil THEN GReturn(err)
                ELSE g_pc' = "write" /\ UNCHANGED g_err
    /\ UNCHANGED <<g_files, g_dirs, g_i, seenNames, allTemplates, g_out>>
    /\ UNCHANGED <<evars, dvars, mvars, svars, pvars>>

\* generateFile: os.WriteFile succeeds, cannot open the file, or opens it
\* and fails to write
G_Write ==
    /\ g_pc = "write"
    /\ \E res \in {"ok", "open failed", "write failed"} :
          /\ g_out' = CASE res = "ok" -> GeneratedFile(g_dirs, allTemplates)
                        [] res = "open failed" -> g_out
                        [] res = "write failed" -> TruncatedFile
          /\ GReturn(IF res = "ok" THEN nil ELSE Errorf("writing output file", res))
    /\ UNCHANGED <<g_files, g_dirs, g_i, seenNames, allTemplates>>
    /\ UNCHANGED <<evars, dvars, mvars, svars, pvars>>

NextGenerator ==
    \/ G_ScanDir
    \/ G_Validate
    \/ G_Write

SpecGenerator == InitGenerator /\ [][NextGenerator]_vars

\* what a scan of all of config.Dirs finds, whatever Generate has done so far
ScanFailed == \E i \in 1 .. Len(g_dirs) : scanDir(g_files, g_dirs[i]).err # nil

RECURSIVE FoundFrom(_)
FoundFrom(i) ==
    IF i > Len(g_dirs) THEN <<>>
    ELSE scanDir(g_files, g_dirs[i]).templates \o FoundFrom(i + 1)

Found == FoundFrom(1)

HasDuplicate ==
    \E i, j \in 1 .. Len(Found) : i # j /\ Found[i].ConstName = Found[j].ConstName

HasInvalid ==
    \E i \in 1 .. Len(Found) : Parse(ContentOf(Found[i].RelPath)).err # nil

\* no file is discovered through two entries of config.Dirs
NoFileTwice ==
    \A i, j \in 1 .. Len(Found) : i # j => Found[i].RelPath # Found[j].RelPath

Untouched == g_out \in {NoFile, OldFile}

\* the output file is written only after scan, duplicate check and
\* validation succeeded; each of the three failures returns its error and
\* leaves the output file as it was
ValidatesBeforeWrite ==
    /\ g_pc # "done" => (Untouched /\ g_err = nil)
    /\ ~Untouched => (~ScanFailed /\ Found # <<>> /\ ~HasDuplicate /\ ~HasInvalid
                      /\ allTemplates = Found)
    /\ (g_pc = "done" /\ ScanFailed) => (g_err # nil /\ Untouched)
    /\ (g_pc = "done" /\ ~ScanFailed /\ Found = <<>>)
          => (g_err.msg = "no templates found in configured dirs" /\ Untouched)
    /\ (g_pc = "done" /\ ~ScanFailed /\ HasDuplicate)
          => (g_err.msg = "duplicate constant name" /\ Untouched)
    /\ (g_pc = "done" /\ ~ScanFailed /\ Found # <<>> /\ ~HasDuplicate /\ HasInvalid)
          => (g_err.msg = "template validation failed" /\ Untouched)
    /\ (g_pc = "done" /\ ~ScanFailed /\ Found # <<>> /\ ~HasDuplicate /\ ~HasInvalid)
          => /\ g_err.msg \in {"nil", "writing output file"}
             /\ g_err = nil => g_out = GeneratedFile(g_dirs, Found)

\* templates with one file name in different directories have different
\* constant names, and Generate does not refuse them as duplicates
SameFileNameSucceeds ==
    (g_pc = "done" /\ ~ScanFailed /\ NoFileTwice)
        => /\ \A i, j \in 1 .. Len(Found) :
                 (Found[i].FileName = Found[j].FileName /\ Found[i].RelPath # Found[j].RelPath)
                     => Found[i].ConstName # Found[j].ConstName
           /\ g_err.msg # "duplicate constant name"

\* C18 as stated: Generate validates before it writes, the three failures
\* leave the output file uncreated and unmodified, and templates with the
\* same file name in different directories get distinct constant names and
\* succeed.
C18_GenerateValidatesBeforeWrite == ValidatesBeforeWrite /\ SameFileNameSucceeds

\* the constant names are those of the package's tests; two directories that
\* differ only in separators, letter case or a leading templates/ or
\* template/ have one name
PascalCaseNames ==
    /\ pathToPascalCase(P_user_profile) = N_UserProfile
    /\ pathToPascalCase(P_simple) = N_Simple
    /\ pathToPascalCase(P_a_b_test) = N_ABTest
    /\ pathToPascalCase(P_ab_test) = N_ABTest
    /\ pathToPascalCase(P_a_test) # pathToPascalCase(P_b_test)

\* C18, amended: Generate validates before it writes and the three failures
\* leave the output file uncreated and unmodified; templates with the same
\* file name in different directories succeed when their constant names
\* differ, and are refused as duplicates, nothing written, when their paths
\* differ only in what pathToPascalCase drops (templates/a/b/test.html.tmpl
\* and templates/a-b/test.html.tmpl are both ABTest).
C18_GenerateValidatesBeforeWriteAmended ==
    /\ ValidatesBeforeWrite
    /\ PascalCaseNames
    /\ (g_pc = "done" /\ ~ScanFailed /\ NoFileTwice /\ g_err.msg = "duplicate constant name")
          => \E i, j \in 1 .. Len(Found) :
                /\ Found[i].RelPath # Found[j].RelPath
                /\ Found[i].ConstName = Found[j].ConstName
                /\ Untouched

\* templates/a/test.html.tmpl and templates/b/test.html.tmpl are generated as
\* ATest and BTest
C18_Witness ==
    /\ g_pc = "done" /\ g_err = nil
    /\ g_dirs = <<D_recursive>>
    /\ Len(Found) = 2
    /\ Found[1].RelPath = P_a_test /\ Found[2].RelPath = P_b_test
    /\ Found[1].FileName = Found[2].FileName
    /\ g_out = GeneratedFile(g_dirs, Found)

(***************************************************************************)
(* Order of reads and writes, pending chunk, unaligned input, termination  *)
(***************************************************************************)
\* EncryptStream: after the header every read is followed by the write of
\* that chunk and every write by the next read; when a read is requested,
\* all that was read is in the sink
EncoderOrdering ==
    /\ \A i \in 3 .. Len(e_log) - 1 :
          /\ e_log[i].op = "read" => e_log[i + 1].op = "write"
          /\ e_log[i].op = "write" => e_log[i + 1].op = "read"
    /\ (e_pc = "read" /\ Len(e_log) > 2)
          => (e_log[Len(e_log)].op = "write" /\ Len(w) = headerSize + e_pos)

\* DecryptStream: when a read is requested, every chunk read before is in
\* the sink
DecoderStrictOrdering ==
    (d_pc = "read" /\ Len(d_log) > 1)
        => (d_log[Len(d_log)].op = "write" /\ Len(outputFile) = d_pos - headerSize)

\* C22 as stated: in EncryptStream and in DecryptStream each chunk read is
\* transformed and written to the sink before the next read is requested.
C22_StrictOrdering == EncoderOrdering /\ DecoderStrictOrdering

\* DecryptStream: a chunk is decrypted before the next read and written
\* after it; what is read and not yet in the sink is the pending chunk
DecoderDeferredOrdering ==
    /\ \A i \in 2 .. Len(d_log) - 1 :
          /\ (d_log[i].op = "read" /\ i = 2)
                => d_log[3].op = (IF isLastBlockOf(d_log[2].n, d_log[2].err)
                                  THEN "write" ELSE "read")
          /\ (d_log[i].op = "read" /\ i > 2) => d_log[i + 1].op = "write"
          /\ (d_log[i].op = "write" /\ d_log[i + 1].op = "write")
                => (i + 1 = Len(d_log) /\ d_log[i - 1].op = "read")
    /\ (d_pc = "read" /\ Len(d_log) > 1)
          => /\ Len(outputFile) + Len(previousDecryptedData) = d_pos - headerSize
             /\ previousDecryptedData = currentDecrypted
             /\ Len(previousDecryptedData) = bufferSize
    /\ (d_pc = "process" /\ CleanLog(d_log))
          => currentDecrypted
                = CBCDecryptBlocks(mode.key,
                      IF d_pos - d_bytesRead > headerSize
                      THEN SubSeq(inputFile, d_pos - d_bytesRead - BlockSize + 1,
                                  d_pos - d_bytesRead)
                      ELSE deriveKeyAndIV(d_password,
                               SubSeq(inputFile, saltSize + 1, headerSize)).iv,
                      SubSeq(inputFile, d_pos - d_bytesRead + 1, d_pos)).out

\* C22, amended: EncryptStream writes each chunk before it requests the next
\* read.  DecryptStream decrypts each chunk before the next read but writes
\* it only after that read: when a read is requested, the last chunk read is
\* pending, not in the sink.
C22_OrderingDeferredInDecoder == EncoderOrdering /\ DecoderDeferredOrdering

\* two chunks read, the first one written, the second one pending
C22_Witness ==
    /\ d_pc = "read" /\ Len(d_log) = 4
    /\ d_log[2].op = "read" /\ d_log[3].op = "read" /\ d_log[4].op = "write"
    /\ Len(outputFile) = bufferSize
    /\ Len(previousDecryptedData) = bufferSize
    /\ d_pos = headerSize + 2 * bufferSize

\* the reads of DecryptStream after the header that delivered bytes, and
\* its writes
ChunkReads == {i \in 2 .. Len(d_log) : d_log[i].op = "read" /\ d_log[i].n > 0}

SinkWrites == {i \in 1 .. Len(d_log) : d_log[i].op = "write"}

\* the read that follows entry i of the log
NextReadAfter(i) ==
    CHOOSE j \in i + 1 .. Len(d_log) :
        /\ d_log[j].op = "read"
        /\ \A k \in i + 1 .. j - 1 : d_log[k].op = "write"

\* C23: pending-buffer bound.  The pending buffer of DecryptStream is empty
\* or exactly one chunk buffer of decrypted bytes, at the start of every
\* iteration and at any other time; a short chunk is never kept; and before
\* a successful return every chunk kept pending has been written exactly
\* once, as it is right after the next chunk was read, or stripped at end of
\* input.
C23_PendingBufferBound ==
    /\ Len(previousDecryptedData) \in {0, bufferSize}
    /\ (d_pc = "read" /\ Len(d_log) > 1)
          => (d_log[Len(d_log)].n = bufferSize \/ d_log[Len(d_log) - 1].n = bufferSize)
    /\ (d_pc = "read" /\ previousDecryptedData # <<>>)
          => previousDecryptedData = currentDecrypted
    /\ (d_pc = "done" /\ d_err = nil)
          => /\ Cardinality(SinkWrites) = Cardinality(ChunkReads)
             /\ \A i \in ChunkReads :
                   ~isLastBlockOf(d_log[i].n, d_log[i].err)
                      => LET j == NextReadAfter(i)
                         IN  /\ d_log[j + 1].op = "write"
                             /\ d_log[j].n > 0 => d_log[j + 1].n = bufferSize
                             /\ d_log[j].n = 0
                                   => /\ j + 1 = Len(d_log)
                                      /\ d_log[j + 1].n <= bufferSize
                                      /\ d_log[j + 1].n >= bufferSize - BlockSize
    /\ (d_pc = "done" /\ d_err = nil /\ HasValidHeader /\ CleanLog(d_log)
          /\ Len(Body) % BlockSize = 0)
          => outputFile = DecryptAlone

\* a body of whole chunk buffers: the last one is pending when the input
\* ends, and is written stripped
C23_Witness ==
    /\ d_pc = "done" /\ d_err = nil /\ CleanLog(d_log)
    /\ Len(inputFile) = headerSize + MaxChunks * bufferSize
    /\ d_log[Len(d_log) - 1] = [op |-> "read", n |-> 0, err |-> "EOF"]
    /\ d_log[Len(d_log)].op = "write"
    /\ previousDecryptedData # <<>>
    /\ Cardinality(SinkWrites) = MaxChunks
    /\ outputFile = plain

\* C24: unaligned ciphertext.  For an input with a valid header whose body
\* is not a multiple of 16 bytes, DecryptStream returns an error; it never
\* ends in a fault of the block-cipher session.
C24_UnalignedCiphertextFails ==
    (HasValidHeader /\ Len(Body) % BlockSize # 0 /\ CleanLog(d_log))
        => /\ d_pc # "panic"
           /\ d_pc = "done" => d_err # nil

(***************************************************************************)
(* Termination.  Both functions are sequential loops: a call that has      *)
(* started keeps running, so every enabled step is eventually taken.       *)
(***************************************************************************)
\* one source of every length and one password: how long a call runs depends
\* on the length of its input alone
InitLive ==
    /\ Init
    /\ plain \in {PlainOf(L, 16) : L \in Lengths}
    /\ password = <<115, 51, 99>>

SpecLive == InitLive /\ [][Next]_vars /\ WF_vars(Next)

EncryptChunkReads == {i \in 3 .. Len(e_log) : e_log[i].op = "read"}

EncryptChunkWrites == {i \in 3 .. Len(e_log) : e_log[i].op = "write"}

DecryptChunkReads == {i \in 2 .. Len(d_log) : d_log[i].op = "read"}

\* the loop iterations the chunk buffer allows on a stream of n bytes
Iterations(n) == (n \div bufferSize) + 1

\* at every point of a run on a source and a sink that report no error, the
\* reads and writes made so far stay within the iterations of the input, and
\* a call that has ended has made exactly that many
IterationCounts ==
    /\ (Len(e_log) >= 2 /\ CleanLog(e_log)) =>
          /\ Cardinality(EncryptChunkReads) <= Iterations(Len(plain))
          /\ Cardinality(EncryptChunkWrites) <= Iterations(Len(plain))
          /\ e_pc = "done" =>
                /\ e_err = nil
                /\ Cardinality(EncryptChunkReads) = Iterations(Len(plain))
                /\ Cardinality(EncryptChunkWrites) = Iterations(Len(plain))
    /\ (HasValidHeader /\ CleanLog(d_log)) =>
          /\ Cardinality(DecryptChunkReads) <= Iterations(Len(Body))
          /\ DecryptEnded =>
                Cardinality(DecryptChunkReads) = Iterations(Len(Body))

\* C25: termination.  EncryptStream always returns, and DecryptStream, once
\* called, always ends; with a source that ends and a sink that accepts
\* writes, EncryptStream on L bytes makes exactly floor(L/B)+1 chunk reads
\* and floor(L/B)+1 ciphertext writes, and DecryptStream on a body of N
\* bytes makes exactly floor(N/B)+1 chunk reads, B the chunk-buffer size.
C25_Termination ==
    /\ <>[](e_pc = "done" /\ (d_pc = "idle" \/ DecryptEnded))
    /\ []IterationCounts

C25_Witness ==
    /\ e_pc = "done" /\ e_err = nil /\ CleanLog(e_log)
    /\ Len(plain) = MaxChunks * bufferSize + 1
    /\ Cardinality(EncryptChunkReads) = MaxChunks + 1
    /\ Cardinality(EncryptChunkWrites) = MaxChunks + 1
    /\ d_pc = "done" /\ d_err = nil /\ CleanLog(d_log)
    /\ Len(Body) = MaxChunks * bufferSize + BlockSize
    /\ Cardinality(DecryptChunkReads) = MaxChunks + 1

(***************************************************************************)
(* removePKCS7Padding on its own: the function applied to chunks of every  *)
(* length around the block size, with every kind of last byte              *)
(***************************************************************************)
StripLengths == {0, 1, 2, BlockSize - 1, BlockSize, BlockSize + 1, bufferSize, bufferSize + 1}

\* last bytes: no padding, the smallest and the largest padding, the lengths
\* next to them and to the chunk length, and a byte far above the block size
StripLastBytes(n) ==
    {0, 1, 2, BlockSize - 1, BlockSize, BlockSize + 1, 255}
        \cup {p \in {n - 1, n, n + 1} : p \in Byte}

\* the empty chunk, and chunks of n bytes, all f but the last, which is p
StripChunks ==
    {<<>>} \cup {[i \in 1 .. n |-> IF i = n THEN p ELSE f] :
                    n \in StripLengths \ {0}, f \in {7, BlockSize},
                    p \in UNION {StripLastBytes(m) : m \in StripLengths}}

InitStrip ==
    /\ CodecIdle
    /\ ManagerIdle
    /\ GeneratorIdle
    /\ PhcIdle
    /\ s_pc = "call"
    /\ s_data \in StripChunks
    /\ s_bytesRead = Len(s_data)
    /\ s_out = <<>>

S_removePKCS7Padding ==
    /\ s_pc = "call"
    /\ s_out' = removePKCS7Padding(s_data, s_bytesRead)
    /\ s_pc' = "returned"
    /\ UNCHANGED <<s_data, s_bytesRead>>
    /\ UNCHANGED <<evars, dvars, mvars, gvars, pvars>>

NextStrip == S_removePKCS7Padding

SpecStrip == InitStrip /\ [][NextStrip]_vars

\* C21: PKCS7 strip rule.  For a chunk of n >= 1 bytes with last byte p the
\* result is the chunk without its last p bytes when 1 <= p <= 16 and
\* p <= n, and the chunk itself otherwise, p = 0 included; the result is a
\* prefix of the chunk of n-16 to n bytes, its length is the same for every
\* chunk of that length with that last byte, and the empty chunk is returned
\* as it is.
C21_StripRule ==
    s_pc = "returned" =>
        LET n == s_bytesRead
        IN  /\ n = 0 => s_out = <<>>
            /\ n >= 1 =>
                  LET p == s_data[n]
                  IN  /\ (1 <= p /\ p <= BlockSize /\ p <= n) => s_out = Take(s_data, n - p)
                      /\ ~(1 <= p /\ p <= BlockSize /\ p <= n) => s_out = s_data
                      /\ \A c \in StripChunks :
                            (Len(c) = n /\ c[n] = p) =>
                                Len(removePKCS7Padding(c, n)) = Len(s_out)
            /\ IsPrefix(s_out, s_data)
            /\ Len(s_out) <= n
            /\ Len(s_out) >= n - BlockSize

\* a chunk of one block and one byte that ends in a full block of padding
C21_Witness ==
    /\ s_pc = "returned"
    /\ s_bytesRead = BlockSize + 1
    /\ s_data[s_bytesRead] = BlockSize
    /\ s_out = <<7>>

(***************************************************************************)
(* Password hashing (package phc): the argon2id backend and the CryptoPHC  *)
(* front.  An encoded hash is a sequence of characters.                    *)
(***************************************************************************)
argon2Version == 19

\* 64 * 1024
memory == 65536

iterations == 3

parallelism == 2

saltLength == 16

keyLength == 32

Argon2Id == <<"a", "r", "g", "o", "n", "2", "i", "d">>

ErrInvalidHash == Errorf("the encoded hash is not in the correct format", "none")

ErrIncompatibleVersion == Errorf("incompatible version of argon2", "none")

\* argon2.IDKey: a keyed function of the secret, the salt and the cost
\* parameters that stands for the hash, keyLen bytes long
argon2IDKey(secret, slt, time, mem, threads, keyLen) ==
    [i \in 1 .. keyLen |->
        (SumSeq(secret) * 31 + Len(secret) * 5 + SumSeq(slt) * 7
            + time * 3 + mem + threads * 11 + i * 13) % 256]

\* the alphabet of base64.StdEncoding
encodeStd ==
    <<"A", "B", "C", "D", "E", "F", "G", "H", "I", "J", "K", "L", "M", "N",
    "O", "P", "Q", "R", "S", "T", "U", "V", "W", "X", "Y", "Z", "a", "b",
    "c", "d", "e", "f", "g", "h", "i", "j", "k", "l", "m", "n", "o", "p",
    "q", "r", "s", "t", "u", "v", "w", "x", "y", "z", "0", "1", "2", "3",
    "4", "5", "6", "7", "8", "9", "+", "/">>

RECURSIVE EncodeToString(_)
\* base64.RawStdEncoding.EncodeToString: three bytes to four characters, no
\* padding characters after a last group of one or two bytes
EncodeToString(src) ==
    IF Len(src) = 0 THEN <<>>
    ELSE IF Len(src) = 1
    THEN LET v == src[1] * 65536
         IN  <<encodeStd[(v \div 262144) + 1], encodeStd[((v \div 4096) % 64) + 1]>>
    ELSE IF Len(src) = 2
    THEN LET v == src[1] * 65536 + src[2] * 256
         IN  <<encodeStd[(v \div 262144) + 1], encodeStd[((v \div 4096) % 64) + 1],
               encodeStd[((v \div 64) % 64) + 1]>>
    ELSE LET v == src[1] * 65536 + src[2] * 256 + src[3]
         IN  <<encodeStd[(v \div 262144) + 1], encodeStd[((v \div 4096) % 64) + 1],
               encodeStd[((v \div 64) % 64) + 1], encodeStd[(v % 64) + 1]>>
                 \o EncodeToString(Drop(src, 3))

decodeMap(c) == (CHOOSE i \in 1 .. 64 : encodeStd[i] = c) - 1

CorruptInputError == Errorf("illegal base64 data", "none")

RECURSIVE DecodeString(_)
\* base64.RawStdEncoding.Strict().DecodeString: every character is of the
\* alphabet, a last group has two or three characters, and the bits of a
\* last group that belong to no byte are zero
DecodeString(str) ==
    IF Len(str) = 0 THEN [err |-> nil, bytes |-> <<>>]
    ELSE IF \E i \in 1 .. Min(4, Len(str))
                : str[i] \notin {encodeStd[j] : j \in 1 .. 64}
    THEN [err |-> CorruptInputError, bytes |-> <<>>]
    ELSE IF Len(str) = 1
    THEN [err |-> CorruptInputError, bytes |-> <<>>]
    ELSE IF Len(str) = 2
    THEN LET v == decodeMap(str[1]) * 64 + decodeMap(str[2])
         IN  IF v % 16 # 0 THEN [err |-> CorruptInputError, bytes |-> <<>>]
             ELSE [err |-> nil, bytes |-> <<v \div 16>>]
    ELSE IF Len(str) = 3
    THEN LET v == decodeMap(str[1]) * 4096 + decodeMap(str[2]) * 64 + decodeMap(str[3])
         IN  IF v % 4 # 0 THEN [err |-> CorruptInputError, bytes |-> <<>>]
             ELSE [err |-> nil, bytes |-> <<v \div 1024, (v \div 4) % 256>>]
    ELSE LET v    == decodeMap(str[1]) * 262144 + decodeMap(str[2]) * 4096
                        + decodeMap(str[3]) * 64 + decodeMap(str[4])
             rest == DecodeString(Drop(str, 4))
         IN  IF rest.err # nil THEN rest
             ELSE [err |-> nil,
                   bytes |-> <<v \div 65536, (v \div 256) % 256, v % 256>> \o rest.bytes]

digits == <<"0", "1", "2", "3", "4", "5", "6", "7", "8", "9">>

RECURSIVE FormatInt(_)
\* the verb %d of fmt.Sprintf on a number that is not negative
FormatInt(n) ==
    IF n < 10 THEN <<digits[n + 1]>>
    ELSE FormatInt(n \div 10) \o <<digits[(n % 10) + 1]>>

digitValue(c) == (CHOOSE i \in 1 .. 10 : digits[i] = c) - 1

RECURSIVE scanNumber(_, _, _)
\* the verb %d of fmt.Sscanf: the digits at the head of str, read into acc
scanNumber(str, acc, n) ==
    IF str # <<>> /\ \E i \in 1 .. 10 : digits[i] = Head(str)
    THEN scanNumber(Tail(str), acc * 10 + digitValue(Head(str)), n + 1)
    ELSE [val |-> acc, n |-> n, rest |-> str]

RECURSIVE Sscanf(_, _)
\* fmt.Sscanf(str, format, ...) for a format that is a sequence of literal
\* texts each followed by %d; what follows the last number is not read
Sscanf(str, format) ==
    IF format = <<>> THEN [err |-> nil, vals |-> <<>>]
    ELSE IF ~IsPrefix(Head(format), str)
    THEN [err |-> Errorf("input does not match format", "none"), vals |-> <<>>]
    ELSE LET num == scanNumber(Drop(str, Len(Head(format))), 0, 0)
         IN  IF num.n = 0
             THEN [err |-> Errorf("expected integer", "none"), vals |-> <<>>]
             ELSE LET rest == Sscanf(num.rest, Tail(format))
                  IN  IF rest.err # nil THEN rest
                      ELSE [err |-> nil, vals |-> <<num.val>> \o rest.vals]

RECURSIVE Split(_, _)
\* strings.Split(s, sep) for a separator of one character: the texts between
\* the separators, the empty text before a leading separator included
Split(str, sep) ==
    IF \A i \in 1 .. Len(str) : str[i] # sep THEN <<str>>
    ELSE LET i == CHOOSE j \in 1 .. Len(str) :
                      str[j] = sep /\ \A k \in 1 .. j - 1 : str[k] # sep
         IN  <<Take(str, i - 1)>> \o Split(Drop(str, i), sep)

\* argon2Pch.GenerateFromBytes after generateRandomBytes returned slt
encodeHash(secret, slt) ==
    LET hash    == argon2IDKey(secret, slt, iterations, memory, parallelism, keyLength)
        b64Salt == EncodeToString(slt)
        b64Hash == EncodeToString(hash)
    IN  <<"$">> \o Argon2Id \o <<"$", "v", "=">> \o FormatInt(argon2Version)
            \o <<"$", "m", "=">> \o FormatInt(memory)
            \o <<",", "t", "=">> \o FormatInt(iterations)
            \o <<",", "p", "=">> \o FormatInt(parallelism)
            \o <<"$">> \o b64Salt \o <<"$">> \o b64Hash

\* decodeHash: return nil, nil, nil, err
decodeFailed(err) ==
    [err |-> err, cfg |-> [memory |-> 0, iterations |-> 0, parallelism |-> 0],
     salt |-> <<>>, hash |-> <<>>]

\* argon2Pch.decodeHash
decodeHash(encodedHash) ==
    LET vals == Split(encodedHash, "$")
    IN  IF Len(vals) # 6 THEN decodeFailed(ErrInvalidHash)
        ELSE LET version == Sscanf(vals[3], << <<"v", "=">> >>)
             IN  IF version.err # nil THEN decodeFailed(version.err)
                 ELSE IF version.vals[1] # argon2Version
                 THEN decodeFailed(ErrIncompatibleVersion)
                 ELSE LET p == Sscanf(vals[4], << <<"m", "=">>, <<",", "t", "=">>,
                                                  <<",", "p", "=">> >>)
                      IN  IF p.err # nil THEN decodeFailed(p.err)
                          ELSE LET slt == DecodeString(vals[5])
                               IN  IF slt.err # nil THEN decodeFailed(slt.err)
                                   ELSE LET hash == DecodeString(vals[6])
                                        IN  IF hash.err # nil THEN decodeFailed(hash.err)
                                            ELSE [err  |-> nil,
                                                  cfg  |-> [memory      |-> p.vals[1],
                                                            iterations  |-> p.vals[2],
                                                            parallelism |-> p.vals[3]],
                                                  salt |-> slt.bytes,
                                                  hash |-> hash.bytes]

\* argon2Pch.CheckSecret
argon2Pch_CheckSecret(encodedHash, secret) ==
    LET d == decodeHash(encodedHash)
    IN  IF d.err # nil THEN [match |-> FALSE, err |-> d.err]
        ELSE LET otherHash == argon2IDKey(secret, d.salt, d.cfg.iterations, d.cfg.memory,
                                          d.cfg.parallelism, Len(d.hash))
             IN  [match |-> d.hash = otherHash, err |-> nil]

\* []byte(password) for the password pass: the bytes of a Go string are the bytes it was made of
BytesOfString(pass) == [i \in 1 .. Len(pass) |-> pass[i] % 256]

\* argon2Pch.CheckPassword
argon2Pch_CheckPassword(encodedHash, pass) ==
    argon2Pch_CheckSecret(encodedHash, BytesOfString(pass))

\* CryptoPHC.CheckSecret: the backend is chosen by the text before the first "$"
CryptoPHC_CheckSecret(encodedHash, secret) ==
    LET vals == Split(encodedHash, "$")[1]
    IN  IF vals = Argon2Id
        THEN argon2Pch_CheckSecret(encodedHash, secret)
        ELSE [match |-> FALSE, err |-> nil]

\* CryptoPHC.CheckPassword
CryptoPHC_CheckPassword(encodedHash, pass) ==
    argon2Pch_CheckPassword(encodedHash, pass)

Secrets == {<<>>, <<115, 51, 99>>, <<112, 119>>}

\* what generateRandomBytes(saltLength) may return
PhcSalts == {[i \in 1 .. saltLength |-> i], [i \in 1 .. saltLength |-> (i * 17 + 3) % 256]}

\* the encoded hashes a check is called with: the one GenerateFromBytes
\* returned, the same without its leading "$", and one of another algorithm
CheckHashes(h) ==
    {h, Tail(h),
     <<"$", "2", "a", "$", "1", "0", "$", "N", "9", "q", "o", "8", "u", "L", "O", "i", "c", "k", "g", "x", "2", "Z", "M", "R", "Z", "o", "M", "y", "e">>}

InitPHC ==
    /\ CodecIdle
    /\ ManagerIdle
    /\ GeneratorIdle
    /\ StripIdle
    /\ p_pc = "generate"
    /\ p_secret \in Secrets
    /\ p_encodedHash = <<>>
    /\ p_err = nil
    /\ c_encodedHash = <<>>
    /\ c_secret = <<>>
    /\ cs_match = FALSE
    /\ cs_err = nil
    /\ cp_match = FALSE
    /\ cp_err = nil

\* CryptoPHC.GenerateFromBytes(secret)
P_GenerateFromBytes ==
    /\ p_pc = "generate"
    /\ \E ok \in BOOLEAN, slt \in PhcSalts :
          IF ok
          THEN /\ p_encodedHash' = encodeHash(p_secret, slt)
               /\ p_err' = nil
               /\ p_pc' = "check"
          ELSE /\ p_encodedHash' = <<>>
               /\ p_err' = Errorf("rand.Read", "read error")
               /\ p_pc' = "done"
    /\ UNCHANGED <<p_secret, c_encodedHash, c_secret, cs_match, cs_err, cp_match, cp_err>>
    /\ UNCHANGED <<evars, dvars, mvars, gvars, svars>>

\* CryptoPHC.CheckSecret(encodedHash, secret)
P_CheckSecret ==
    /\ p_pc = "check"
    /\ \E h \in CheckHashes(p_encodedHash), s \in Secrets :
          LET r == CryptoPHC_CheckSecret(h, s)
          IN  /\ c_encodedHash' = h
              /\ c_secret' = s
              /\ cs_match' = r.match
              /\ cs_err' = r.err
    /\ p_pc' = "password"
    /\ UNCHANGED <<p_secret, p_encodedHash, p_err, cp_match, cp_err>>
    /\ UNCHANGED <<evars, dvars, mvars, gvars, svars>>

\* CryptoPHC.CheckPassword(encodedHash, string(secret))
P_CheckPassword ==
    /\ p_pc = "password"
    /\ LET r == CryptoPHC_CheckPassword(c_encodedHash, c_secret)
       IN  /\ cp_match' = r.match
           /\ cp_err' = r.err
    /\ p_pc' = "done"
    /\ UNCHANGED <<p_secret, p_encodedHash, p_err, c_encodedHash, c_secret, cs_match, cs_err>>
    /\ UNCHANGED <<evars, dvars, mvars, gvars, svars>>

NextPHC ==
    \/ P_GenerateFromBytes
    \/ P_CheckSecret
    \/ P_CheckPassword

SpecPHC == InitPHC /\ [][NextPHC]_vars

\* both checks were made on the hash GenerateFromBytes returned
CheckedGenerated == p_pc = "done" /\ p_err = nil /\ c_encodedHash = p_encodedHash

\* C26: password-hash check agreement.  On the encoded hash
\* GenerateFromBytes returned for a secret, CheckSecret with that secret
\* returns true, CheckSecret and CheckPassword give the same answer, and
\* CheckSecret returns false only for another secret.
C26_CheckAgreement ==
    CheckedGenerated =>
        /\ c_secret = p_secret => (cs_match /\ cs_err = nil)
        /\ cs_match = cp_match
        /\ ~cs_match => c_secret # p_secret

====
